---------------------------- MODULE Spec2Model ----------------------------
(***************************************************************************)
(* A model of the index construction core of CORD19SEARCHENGINE:           *)
(*   - the bucketed inverter      (source/indexer/inverted_index.py)       *)
(*   - the lexicon and the forward-index writer                            *)
(*                                 (source/indexer/lexicon.py,             *)
(*                                  source/indexer/forward_index.py)       *)
(*   - the barrel assigner/writer (source/indexer/barrels.py)              *)
(*   - the postings consolidator  (scripts/build_postings_index.py)        *)
(* Binary files are modelled by their decoded contents: a file is the      *)
(* sequence of the records that struct.pack wrote to it, in write order.   *)
(* Each subsystem has its own specification; the variables of the other    *)
(* subsystems stay at their idle values.                                   *)
(***************************************************************************)
EXTENDS Integers, Sequences, FiniteSets, TLC

(***************************************************************************)
(* Bounds of the model.                                                    *)
(***************************************************************************)
MaxDocs == 2
MaxBuckets == 2

\* input domains of the forward index handed to the inverter
TokenIds == 0..2
DocIds == 0..2
TokenLists == UNION {[1..k -> TokenIds] : k \in 0..2}

(***************************************************************************)
(* Helpers shared by the subsystems.                                       *)
(***************************************************************************)
\* an absent file / a None handle / a function that has not returned
NoFile == [exists |-> FALSE]
None == [exists |-> FALSE]

File(contents) == [exists |-> TRUE, data |-> contents]

Some(value) == [exists |-> TRUE, data |-> value]

SeqToSet(s) == {s[i] : i \in DOMAIN s}

Min(S) == CHOOSE x \in S : \A y \in S : x <= y

Max(S) == CHOOSE x \in S : \A y \in S : x >= y

(***************************************************************************)
(* The directories the builders are given.                                 *)
(***************************************************************************)
VARIABLES
    input_dir,                \* does the dataset root passed as input_dir exist
    output_dir                \* does the output directory exist

dirVars == <<input_dir, output_dir>>

\* both directories are there
DirsExist ==
    /\ input_dir = TRUE
    /\ output_dir = TRUE

\* mutant of sorted: the greatest element first
RECURSIVE sorted_descending(_)
sorted_descending(S) ==
    IF S = {} THEN <<>> ELSE <<Max(S)>> \o sorted_descending(S \ {Max(S)})

\* Python's sorted() on a set of integers
RECURSIVE sorted(_)
sorted(S) == IF S = {} THEN <<>> ELSE <<Min(S)>> \o sorted(S \ {Min(S)})

(***************************************************************************)
(* The bucketed inverter: build_inverted_index.                            *)
(***************************************************************************)
VARIABLES
    inv_pc,                   \* position in build_inverted_index
    forward_index,            \* forward_index.bin: File([doc_count, records]) or NoFile
    num_buckets,              \* the num_buckets argument
    buckets,                  \* tmp_inverted/bucket_NNN.bin: Seq(<<token_id, doc_id>>)
    bucket_posting_files,     \* bucket_NNN.postings: File(Seq(record)) or None
    docs_seen,
    total_token_occurrences,
    compact_idx,              \* loop index of Pass 2
    unique_tokens,            \* Pass 2 counter
    heap,                     \* set of <<token_id, bucket_idx, doc_ids>>
    handles,                  \* per compact stream: records already read; 0 is a None handle
    inverted_index,           \* inverted_index.bin: File([vocab_size, records]) or NoFile
    tokens_written,
    total_postings,
    tmp_dir,                  \* TRUE while tmp_inverted exists
    inv_stats,                \* the returned statistics, or None
    bucket_handles            \* the buckets whose write handle is open

\* the inverter's own state; forward_index.bin is shared with its writer
invLocal == <<inv_pc, num_buckets, buckets, bucket_posting_files,
              docs_seen, total_token_occurrences, compact_idx, unique_tokens,
              heap, handles, inverted_index, tokens_written, total_postings,
              tmp_dir, inv_stats, bucket_handles>>

invVars == <<invLocal, forward_index>>

ForwardRecords == [doc_id : DocIds, token_ids : TokenLists]

\* forward index files as create_forward_index / _serialize_forward_index write them
ForwardFiles ==
    {File([doc_count |-> Len(rs), records |-> rs]) :
        rs \in UNION {[1..k -> ForwardRecords] : k \in 0..MaxDocs}}

\* forward index files that end early: the header declares doc_count documents,
\* only Len(records) < doc_count complete records follow, and the file stops at
\* a record boundary, inside the next 8-byte document header, or inside the
\* token ids of the next record
TruncatedForwardFiles ==
    {f \in {File([doc_count |-> n, records |-> rs, cut |-> c]) :
                rs \in UNION {[1..k -> ForwardRecords] : k \in 0..(MaxDocs - 1)},
                n \in 1..MaxDocs,
                c \in {"boundary", "header", "token_ids"}} :
        f.data.doc_count > Len(f.data.records)}

\* an inverted_index.bin left by an earlier build
PriorInverted ==
    File([vocab_size |-> 1, records |-> <<[token_id |-> 0, doc_ids |-> <<0>>]>>])

\* the (token_id, doc_id) pairs Pass 1 appends to bucket b for one forward record
RECURSIVE ShardPairs(_, _, _, _)
ShardPairs(token_ids, doc_id, b, B) ==
    IF token_ids = <<>> THEN <<>>
    ELSE LET token_id == Head(token_ids)
             bucket_idx == token_id % B
         IN  (IF bucket_idx = b THEN << <<token_id, doc_id>> >> ELSE <<>>)
             \o ShardPairs(Tail(token_ids), doc_id, b, B)

\* _compact_bucket: token_id -> set(doc_id), written in ascending token order
\* with the doc ids sorted
compact_postings(bucket) ==
    [token_id \in {p[1] : p \in SeqToSet(bucket)} |->
        {p[2] : p \in {q \in SeqToSet(bucket) : q[1] = token_id}}]

\* mutant of compact_bucket: the doc ids of a token are kept as a list in
\* arrival order instead of a sorted set
compact_bucket_list(bucket) ==
    LET toks == sorted({p[1] : p \in SeqToSet(bucket)})
        docs(t) == LET hits == SelectSeq(bucket, LAMBDA p : p[1] = t)
                   IN  [k \in 1..Len(hits) |-> hits[k][2]]
    IN  [i \in 1..Len(toks) |-> [token_id |-> toks[i], doc_ids |-> docs(toks[i])]]

compact_bucket(bucket) ==
    LET postings == compact_postings(bucket)
        toks == sorted(DOMAIN postings)
    IN  [i \in 1..Len(toks) |->
            [token_id |-> toks[i], doc_ids |-> sorted(postings[toks[i]])]]

\* mutant of heappop: the greatest tuple is popped
heappop_largest(h) ==
    CHOOSE e \in h : \A o \in h :
        \/ e[1] > o[1]
        \/ (e[1] = o[1] /\ e[2] >= o[2])

\* heapq.heappop on tuples (token_id, bucket_idx, doc_ids): the least tuple
heappop(h) ==
    CHOOSE e \in h : \A o \in h :
        \/ e[1] < o[1]
        \/ (e[1] = o[1] /\ e[2] <= o[2])

InvInit ==
    /\ inv_pc = "start"
    /\ forward_index \in ForwardFiles
    /\ num_buckets \in 1..MaxBuckets
    /\ buckets = <<>>
    /\ bucket_posting_files = <<>>
    /\ docs_seen = 0
    /\ total_token_occurrences = 0
    /\ compact_idx = 0
    /\ unique_tokens = 0
    /\ heap = {}
    /\ handles = <<>>
    /\ inverted_index = NoFile
    /\ tokens_written = 0
    /\ total_postings = 0
    /\ tmp_dir = FALSE
    /\ inv_stats = None
    /\ bucket_handles = {}

\* build_inverted_index about to run on a forward index that may end early,
\* the output directory holding the inverted index of an earlier build
InvTruncInit ==
    /\ inv_pc = "start"
    /\ forward_index \in ForwardFiles \cup TruncatedForwardFiles
    /\ num_buckets \in 1..MaxBuckets
    /\ buckets = <<>>
    /\ bucket_posting_files = <<>>
    /\ docs_seen = 0
    /\ total_token_occurrences = 0
    /\ compact_idx = 0
    /\ unique_tokens = 0
    /\ heap = {}
    /\ handles = <<>>
    /\ inverted_index = PriorInverted
    /\ tokens_written = 0
    /\ total_postings = 0
    /\ tmp_dir = FALSE
    /\ inv_stats = None
    /\ bucket_handles = {}

\* build_inverted_index about to run with a fresh output location, on a
\* forward index path that may not exist
InvStartInit ==
    /\ inv_pc = "start"
    /\ forward_index \in {NoFile} \cup ForwardFiles
    /\ num_buckets \in 1..MaxBuckets
    /\ buckets = <<>>
    /\ bucket_posting_files = <<>>
    /\ docs_seen = 0
    /\ total_token_occurrences = 0
    /\ compact_idx = 0
    /\ unique_tokens = 0
    /\ heap = {}
    /\ handles = <<>>
    /\ inverted_index = NoFile
    /\ tokens_written = 0
    /\ total_postings = 0
    /\ tmp_dir = FALSE
    /\ inv_stats = None
    /\ bucket_handles = {}
    /\ input_dir = TRUE
    /\ output_dir = FALSE

\* what an aborted build with two buckets left in tmp_inverted: the bucket
\* files of Pass 1 and the compact file of bucket 0
StaleBuckets == [b \in 0..1 |-> IF b = 0 THEN << <<2, 2>> >> ELSE << <<1, 2>> >>]

StalePostingFiles == << File(<< [token_id |-> 2, doc_ids |-> <<2>>] >>) >>

\* build_inverted_index about to run in an output directory that holds the
\* inverted index of an earlier build and the scratch directory of an
\* aborted one
InvRerunInit ==
    /\ inv_pc = "start"
    /\ forward_index \in ForwardFiles
    /\ num_buckets \in 1..MaxBuckets
    /\ tmp_dir = TRUE
    /\ buckets = StaleBuckets
    /\ bucket_posting_files = StalePostingFiles
    /\ docs_seen = 0
    /\ total_token_occurrences = 0
    /\ compact_idx = 0
    /\ unique_tokens = 0
    /\ heap = {}
    /\ handles = <<>>
    /\ inverted_index = PriorInverted
    /\ tokens_written = 0
    /\ total_postings = 0
    /\ inv_stats = None
    /\ bucket_handles = {}

InvIdle ==
    /\ inv_pc = "idle"
    /\ num_buckets = 1
    /\ buckets = <<>>
    /\ bucket_posting_files = <<>>
    /\ docs_seen = 0
    /\ total_token_occurrences = 0
    /\ compact_idx = 0
    /\ unique_tokens = 0
    /\ heap = {}
    /\ handles = <<>>
    /\ inverted_index = NoFile
    /\ tokens_written = 0
    /\ total_postings = 0
    /\ tmp_dir = FALSE
    /\ inv_stats = None
    /\ bucket_handles = {}

\* mutant of InvOpen: the output and scratch directories and the bucket files
\* are made before the forward index is looked for
InvOpen_mkdir_first ==
    /\ inv_pc = "start"
    /\ output_dir' = TRUE
    /\ tmp_dir' = TRUE
    /\ buckets' = [b \in 0..(num_buckets - 1) |-> <<>>]
    /\ bucket_posting_files' = <<>>
    /\ bucket_handles' = IF forward_index.exists /\ forward_index.data.doc_count # 0
                         THEN 0..(num_buckets - 1) ELSE {}
    /\ inv_pc' = IF ~forward_index.exists THEN "failed"
                 ELSE IF forward_index.data.doc_count = 0
                      THEN "failed" ELSE "pass1"
    /\ UNCHANGED <<forward_index, num_buckets, docs_seen,
                   total_token_occurrences, compact_idx, unique_tokens, heap,
                   handles, inverted_index, tokens_written, total_postings,
                   inv_stats>>

\* mutant of InvOpen: the scratch directory is kept as found and the bucket
\* files are opened for appending
InvOpen_keeps_scratch ==
    /\ inv_pc = "start"
    /\ IF ~forward_index.exists
       THEN /\ inv_pc' = "failed"
            /\ UNCHANGED <<output_dir, tmp_dir, buckets,
                           bucket_posting_files, bucket_handles>>
       ELSE /\ output_dir' = TRUE
            /\ tmp_dir' = TRUE
            /\ buckets' = [b \in 0..(num_buckets - 1) |->
                              IF b \in DOMAIN buckets THEN buckets[b] ELSE <<>>]
            /\ bucket_posting_files' = bucket_posting_files
            /\ bucket_handles' = IF forward_index.data.doc_count = 0
                                 THEN {} ELSE 0..(num_buckets - 1)
            /\ inv_pc' = IF forward_index.data.doc_count = 0
                         THEN "failed" ELSE "pass1"
    /\ UNCHANGED <<forward_index, num_buckets, docs_seen,
                   total_token_occurrences, compact_idx, unique_tokens, heap,
                   handles, inverted_index, tokens_written, total_postings,
                   inv_stats>>

\* lines 187-213: FileNotFoundError when the forward index is missing; else
\* create the output and scratch directories, open the bucket files, read the
\* header; an empty forward index raises RuntimeError
InvOpen ==
    /\ inv_pc = "start"
    /\ IF ~forward_index.exists
       THEN \* lines 187-188: FileNotFoundError
            /\ inv_pc' = "failed"
            /\ UNCHANGED <<output_dir, tmp_dir, buckets,
                           bucket_posting_files, bucket_handles>>
       ELSE /\ output_dir' = TRUE
            /\ tmp_dir' = TRUE
            /\ buckets' = [b \in 0..(num_buckets - 1) |-> <<>>]
            /\ bucket_posting_files' = <<>>
            /\ bucket_handles' = IF forward_index.data.doc_count = 0
                                 THEN {} ELSE 0..(num_buckets - 1)
            /\ inv_pc' = IF forward_index.data.doc_count = 0
                         THEN "failed" ELSE "pass1"
    /\ UNCHANGED <<forward_index, num_buckets, docs_seen,
                   total_token_occurrences, compact_idx, unique_tokens, heap,
                   handles, inverted_index, tokens_written, total_postings,
                   inv_stats>>

\* lines 215-233: one iteration of the Pass 1 loop
Pass1Doc ==
    /\ inv_pc = "pass1"
    /\ docs_seen < forward_index.data.doc_count
    /\ docs_seen < Len(forward_index.data.records)
    /\ LET rec == forward_index.data.records[docs_seen + 1]
       IN  /\ buckets' = [b \in 0..(num_buckets - 1) |->
                            buckets[b] \o ShardPairs(rec.token_ids, rec.doc_id, b, num_buckets)]
           /\ total_token_occurrences' = total_token_occurrences + Len(rec.token_ids)
    /\ docs_seen' = docs_seen + 1
    /\ UNCHANGED <<bucket_handles, inv_pc, forward_index, num_buckets, bucket_posting_files,
                   compact_idx, unique_tokens, heap, handles, inverted_index,
                   tokens_written, total_postings, tmp_dir, inv_stats>>

\* mutant of Pass1Truncated: a short read ends the loop as if the input were
\* exhausted, and the build goes on with the records read so far
Pass1Truncated_as_eof ==
    /\ inv_pc = "pass1"
    /\ docs_seen < forward_index.data.doc_count
    /\ docs_seen >= Len(forward_index.data.records)
    /\ inv_pc' = "pass2"
    /\ compact_idx' = 0
    /\ unique_tokens' = 0
    /\ bucket_posting_files' = <<>>
    /\ bucket_handles' = {}
    /\ UNCHANGED <<forward_index, num_buckets, buckets, docs_seen,
                   total_token_occurrences, heap, handles, inverted_index,
                   tokens_written, total_postings, tmp_dir, inv_stats>>

\* lines 216-222 and 237-239: the next document header or its token ids are
\* short; RuntimeError is raised, the bucket handles are closed
Pass1Truncated ==
    /\ inv_pc = "pass1"
    /\ docs_seen < forward_index.data.doc_count
    /\ docs_seen >= Len(forward_index.data.records)
    /\ inv_pc' = "failed"
    /\ bucket_handles' = {}
    /\ UNCHANGED <<forward_index, num_buckets, buckets, bucket_posting_files,
                   docs_seen, total_token_occurrences, compact_idx,
                   unique_tokens, heap, handles, inverted_index,
                   tokens_written, total_postings, tmp_dir, inv_stats>>

\* lines 235-243: the loop ends, the bucket handles are closed
Pass1Done ==
    /\ inv_pc = "pass1"
    /\ docs_seen = forward_index.data.doc_count
    /\ inv_pc' = "pass2"
    /\ compact_idx' = 0
    /\ unique_tokens' = 0
    /\ bucket_posting_files' = <<>>
    /\ bucket_handles' = {}
    /\ UNCHANGED <<forward_index, num_buckets, buckets, docs_seen,
                   total_token_occurrences, heap, handles, inverted_index,
                   tokens_written, total_postings, tmp_dir, inv_stats>>

\* lines 245-252: one iteration of the Pass 2 loop
Pass2Bucket ==
    /\ inv_pc = "pass2"
    /\ compact_idx < num_buckets
    /\ IF buckets[compact_idx] = <<>>
       THEN /\ bucket_posting_files' = Append(bucket_posting_files, None)
            /\ UNCHANGED unique_tokens
       ELSE LET compact == compact_bucket(buckets[compact_idx])
            IN  /\ bucket_posting_files' = Append(bucket_posting_files, File(compact))
                /\ unique_tokens' = unique_tokens + Len(compact)
    /\ compact_idx' = compact_idx + 1
    /\ UNCHANGED <<bucket_handles, inv_pc, forward_index, num_buckets, buckets, docs_seen,
                   total_token_occurrences, heap, handles, inverted_index,
                   tokens_written, total_postings, tmp_dir, inv_stats>>

\* _merge_bucket_streams lines 114-132: open every compact stream, push its
\* first record, open inverted_index.bin and write the placeholder
MergeOpen ==
    /\ inv_pc = "pass2"
    /\ compact_idx = num_buckets
    /\ LET open == {i \in 1..num_buckets :
                        /\ bucket_posting_files[i].exists
                        /\ bucket_posting_files[i].data # <<>>}
       IN  /\ heap' = {<<bucket_posting_files[i].data[1].token_id, i - 1,
                         bucket_posting_files[i].data[1].doc_ids>> : i \in open}
           /\ handles' = [i \in 1..num_buckets |-> IF i \in open THEN 1 ELSE 0]
    /\ inverted_index' = File([vocab_size |-> 0, records |-> <<>>])
    /\ tokens_written' = 0
    /\ total_postings' = 0
    /\ inv_pc' = "merge"
    /\ UNCHANGED <<bucket_handles, forward_index, num_buckets, buckets, bucket_posting_files,
                   docs_seen, total_token_occurrences, compact_idx,
                   unique_tokens, tmp_dir, inv_stats>>

\* lines 134-153: one iteration of the merge loop
MergeStep ==
    /\ inv_pc = "merge"
    /\ heap # {}
    /\ LET top == heappop(heap)
           token_id == top[1]
           bucket_idx == top[2]
           doc_ids == top[3]
           stream == bucket_posting_files[bucket_idx + 1].data
           pos == handles[bucket_idx + 1]
       IN  /\ inverted_index' =
                [inverted_index EXCEPT !.data.records =
                    Append(@, [token_id |-> token_id, doc_ids |-> doc_ids])]
           /\ tokens_written' = tokens_written + 1
           /\ total_postings' = total_postings + Len(doc_ids)
           /\ IF pos = 0
              THEN /\ heap' = heap \ {top}
                   /\ UNCHANGED handles
              ELSE IF pos < Len(stream)
                   THEN /\ heap' = (heap \ {top}) \cup
                               {<<stream[pos + 1].token_id, bucket_idx,
                                  stream[pos + 1].doc_ids>>}
                        /\ handles' = [handles EXCEPT ![bucket_idx + 1] = pos + 1]
                   ELSE /\ heap' = heap \ {top}
                        /\ handles' = [handles EXCEPT ![bucket_idx + 1] = 0]
    /\ UNCHANGED <<bucket_handles, inv_pc, forward_index, num_buckets, buckets,
                   bucket_posting_files, docs_seen, total_token_occurrences,
                   compact_idx, unique_tokens, tmp_dir, inv_stats>>

\* mutant of MergeDone: the placeholder is never patched
MergeDone_unpatched ==
    /\ inv_pc = "merge"
    /\ heap = {}
    /\ inv_pc' = "merged"
    /\ UNCHANGED <<bucket_handles, forward_index, num_buckets, buckets, bucket_posting_files,
                   docs_seen, total_token_occurrences, compact_idx,
                   unique_tokens, heap, handles, inverted_index, tokens_written,
                   total_postings, tmp_dir, inv_stats>>

\* lines 155-162: patch the placeholder, close the file
MergeDone ==
    /\ inv_pc = "merge"
    /\ heap = {}
    /\ inverted_index' = [inverted_index EXCEPT !.data.vocab_size = tokens_written]
    /\ inv_pc' = "merged"
    /\ UNCHANGED <<bucket_handles, forward_index, num_buckets, buckets, bucket_posting_files,
                   docs_seen, total_token_occurrences, compact_idx,
                   unique_tokens, heap, handles, tokens_written,
                   total_postings, tmp_dir, inv_stats>>

\* build_inverted_index lines 259-280: remove the scratch directory, return stats
InvFinish ==
    /\ inv_pc = "merged"
    /\ tmp_dir' = FALSE
    /\ buckets' = <<>>
    /\ bucket_posting_files' = <<>>
    /\ inv_stats' = File([unique_tokens |-> tokens_written,
                          total_postings |-> total_postings,
                          documents_indexed |-> forward_index.data.doc_count,
                          total_token_occurrences |-> total_token_occurrences])
    /\ inv_pc' = "done"
    /\ UNCHANGED <<bucket_handles, forward_index, num_buckets, docs_seen,
                   total_token_occurrences, compact_idx, unique_tokens, heap,
                   handles, inverted_index, tokens_written, total_postings>>

\* an exception leaves build_inverted_index while a pass runs (a write that
\* fails, a short read of a compact bucket in _read_bucket_record): the
\* finally of lines 237-239 and the with of line 131 close the handles,
\* nothing is removed or renamed
InvAbort ==
    /\ inv_pc \in {"pass1", "pass2", "merge"}
    /\ inv_pc' = "aborted"
    /\ bucket_handles' = {}
    /\ UNCHANGED <<forward_index, num_buckets, buckets, bucket_posting_files,
                   docs_seen, total_token_occurrences, compact_idx,
                   unique_tokens, heap, handles, inverted_index,
                   tokens_written, total_postings, tmp_dir, inv_stats>>

(***************************************************************************)
(* The lexicon: class Lexicon of lexicon.py.                               *)
(***************************************************************************)
VARIABLES
    word2id,                  \* Lexicon.word2id: token -> id
    id2word,                  \* Lexicon.id2word: the list of tokens
    lex_last,                 \* the last get_id call: Some([token, create, ret]) or None
    lex_calls                 \* number of get_id calls made by the test driver

lexVars == <<word2id, id2word, lex_last, lex_calls>>

MaxCalls == 4

Words == {"a", "b", "c"}

\* mutant of get_id: the new id is one past the end of the list
get_id_off_by_one(w2i, i2w, token, create_if_missing) ==
    IF token \notin DOMAIN w2i
    THEN IF ~create_if_missing
         THEN [ret |-> -1, word2id |-> w2i, id2word |-> i2w]
         ELSE LET token_id == Len(i2w) + 1
                  w2 == (token :> token_id) @@ w2i
              IN  [ret |-> w2[token], word2id |-> w2, id2word |-> Append(i2w, token)]
    ELSE [ret |-> w2i[token], word2id |-> w2i, id2word |-> i2w]

\* Lexicon.get_id: the returned id and the two structures after the call
get_id(w2i, i2w, token, create_if_missing) ==
    IF token \notin DOMAIN w2i
    THEN IF ~create_if_missing
         THEN [ret |-> -1, word2id |-> w2i, id2word |-> i2w]
         ELSE LET token_id == Len(i2w)
                  w2 == (token :> token_id) @@ w2i
              IN  [ret |-> w2[token], word2id |-> w2, id2word |-> Append(i2w, token)]
    ELSE [ret |-> w2i[token], word2id |-> w2i, id2word |-> i2w]

\* Lexicon.__init__
EmptyDict == [t \in {} |-> 0]

LexInit ==
    /\ word2id = EmptyDict
    /\ id2word = <<>>
    /\ lex_last = None
    /\ lex_calls = 0

\* one call lex.get_id(token, create_if_missing)
LexGetId ==
    /\ lex_calls < MaxCalls
    /\ \E token \in Words, create \in BOOLEAN :
         LET r == get_id(word2id, id2word, token, create)
         IN  /\ word2id' = r.word2id
             /\ id2word' = r.id2word
             /\ lex_last' = Some([token |-> token, create |-> create, ret |-> r.ret])
    /\ lex_calls' = lex_calls + 1

\* mutant of write_binary: the trailing token_id counts from 1
write_binary_from_one(i2w) ==
    File([vocab_size |-> Len(i2w),
          entries |-> [i \in 1..Len(i2w) |-> [token |-> i2w[i], token_id |-> i]]])

\* Lexicon.write_binary: vocab_size, then per token its bytes and its index
write_binary(i2w) ==
    File([vocab_size |-> Len(i2w),
          entries |-> [i \in 1..Len(i2w) |-> [token |-> i2w[i], token_id |-> i - 1]]])

(***************************************************************************)
(* The forward-index writer: build_forward_index of forward_index.py.      *)
(* A source file is modelled by what process_document and tokenize make of *)
(* it: an exception, or the list of its tokens (possibly empty).           *)
(***************************************************************************)
VARIABLES
    fwd_pc,                   \* position in build_forward_index
    corpus,                   \* the files doc_iter yields, in order
    limit,                    \* the limit argument: Some(n) or None
    file_idx,                 \* files consumed from doc_iter
    forward_records,
    doc_metadata,
    doc_count,
    total_tokens,
    docs_skipped,
    lexicon_bin,              \* lexicon.bin
    doc_ids_tsv,              \* doc_ids.tsv: the list of (doc_id, paper_id) lines
    fwd_stats                 \* the returned statistics, or None

fwdLocal == <<fwd_pc, corpus, limit, file_idx, forward_records, doc_metadata,
              doc_count, total_tokens, docs_skipped, lexicon_bin, doc_ids_tsv,
              fwd_stats>>

MaxFiles == 3
MaxLimit == 2

DocTokenLists == UNION {[1..k -> {"a", "b"}] : k \in 0..2}

SourceFiles == {[raises |-> TRUE, tokens |-> <<>>]}
               \cup {[raises |-> FALSE, tokens |-> ts] : ts \in DocTokenLists}

\* [lex.get_id(token) for token in tokens], threading the lexicon through
RECURSIVE get_ids(_, _, _)
get_ids(w2i, i2w, tokens) ==
    IF tokens = <<>>
    THEN [token_ids |-> <<>>, word2id |-> w2i, id2word |-> i2w]
    ELSE LET r == get_id(w2i, i2w, Head(tokens), TRUE)
             rest == get_ids(r.word2id, r.id2word, Tail(tokens))
         IN  [token_ids |-> <<r.ret>> \o rest.token_ids,
              word2id |-> rest.word2id, id2word |-> rest.id2word]

\* mutant of assign_doc_id: the enumeration index is used as the doc_id
assign_doc_id_enumerated(count, idx) == idx

\* line 128: doc_id = doc_count
assign_doc_id(count, idx) == count

\* _serialize_forward_index
serialize_forward_index(records) ==
    File([doc_count |-> Len(records), records |-> records])

FwdInit ==
    /\ fwd_pc = "loop"
    /\ corpus \in UNION {[1..k -> SourceFiles] : k \in 0..MaxFiles}
    /\ limit \in {None} \cup {Some(n) : n \in 0..MaxLimit}
    /\ file_idx = 0
    /\ forward_records = <<>>
    /\ doc_metadata = <<>>
    /\ doc_count = 0
    /\ total_tokens = 0
    /\ docs_skipped = 0
    /\ lexicon_bin = NoFile
    /\ doc_ids_tsv = NoFile
    /\ fwd_stats = None
    /\ forward_index = NoFile

\* build_forward_index about to run with a fresh output location, on a
\* dataset root that may not exist
FwdStartInit ==
    /\ fwd_pc = "start"
    /\ input_dir \in BOOLEAN
    /\ output_dir = FALSE
    /\ corpus \in IF input_dir
                  THEN UNION {[1..k -> SourceFiles] : k \in 0..MaxFiles}
                  ELSE {<<>>}
    /\ limit \in {None} \cup {Some(n) : n \in 0..MaxLimit}
    /\ file_idx = 0
    /\ forward_records = <<>>
    /\ doc_metadata = <<>>
    /\ doc_count = 0
    /\ total_tokens = 0
    /\ docs_skipped = 0
    /\ lexicon_bin = NoFile
    /\ doc_ids_tsv = NoFile
    /\ fwd_stats = None
    /\ forward_index = NoFile

FwdIdle ==
    /\ fwd_pc = "idle"
    /\ corpus = <<>>
    /\ limit = None
    /\ file_idx = 0
    /\ forward_records = <<>>
    /\ doc_metadata = <<>>
    /\ doc_count = 0
    /\ total_tokens = 0
    /\ docs_skipped = 0
    /\ lexicon_bin = NoFile
    /\ doc_ids_tsv = NoFile
    /\ fwd_stats = None

\* lines 98-116: FileNotFoundError when the dataset root is missing; else the
\* lexicon and the document iterator are set up
FwdStart ==
    /\ fwd_pc = "start"
    /\ fwd_pc' = IF ~input_dir THEN "failed" ELSE "loop"
    /\ UNCHANGED <<corpus, limit, file_idx, forward_records, doc_metadata,
                   doc_count, total_tokens, docs_skipped, lexicon_bin,
                   doc_ids_tsv, fwd_stats, forward_index, lexVars>>

\* mutant of FwdDoc: the exception of a document is not caught and ends the
\* build
FwdDoc_propagates ==
    /\ fwd_pc = "loop"
    /\ file_idx < Len(corpus)
    /\ file_idx' = file_idx + 1
    /\ LET file == corpus[file_idx + 1]
       IN  IF file.raises
           THEN /\ fwd_pc' = "failed"
                /\ UNCHANGED <<docs_skipped, forward_records, doc_metadata,
                               doc_count, total_tokens, word2id, id2word>>
           ELSE IF file.tokens = <<>>
           THEN /\ docs_skipped' = docs_skipped + 1
                /\ UNCHANGED <<fwd_pc, forward_records, doc_metadata, doc_count,
                               total_tokens, word2id, id2word>>
           ELSE LET doc_id == assign_doc_id(doc_count, file_idx)
                    r == get_ids(word2id, id2word, file.tokens)
                IN  /\ forward_records' = Append(forward_records,
                            [doc_id |-> doc_id, token_ids |-> r.token_ids])
                    /\ doc_metadata' = Append(doc_metadata,
                            [doc_id |-> doc_id, paper_id |-> file_idx + 1])
                    /\ word2id' = r.word2id
                    /\ id2word' = r.id2word
                    /\ total_tokens' = total_tokens + Len(r.token_ids)
                    /\ doc_count' = doc_count + 1
                    /\ fwd_pc' = IF limit.exists /\ doc_count + 1 >= limit.data
                                 THEN "validate" ELSE "loop"
                    /\ UNCHANGED docs_skipped
    /\ UNCHANGED <<corpus, limit, lexicon_bin, doc_ids_tsv, fwd_stats,
                   forward_index, lex_last, lex_calls>>

\* lines 118-148: one iteration of the document loop
FwdDoc ==
    /\ fwd_pc = "loop"
    /\ file_idx < Len(corpus)
    /\ file_idx' = file_idx + 1
    /\ LET file == corpus[file_idx + 1]
       IN  IF file.raises \/ file.tokens = <<>>
           THEN \* the except branch, or "if not tokens": skip and continue
                /\ docs_skipped' = docs_skipped + 1
                /\ UNCHANGED <<fwd_pc, forward_records, doc_metadata, doc_count,
                               total_tokens, word2id, id2word>>
           ELSE LET doc_id == assign_doc_id(doc_count, file_idx)
                    r == get_ids(word2id, id2word, file.tokens)
                IN  /\ forward_records' = Append(forward_records,
                            [doc_id |-> doc_id, token_ids |-> r.token_ids])
                    /\ doc_metadata' = Append(doc_metadata,
                            [doc_id |-> doc_id, paper_id |-> file_idx + 1])
                    /\ word2id' = r.word2id
                    /\ id2word' = r.id2word
                    /\ total_tokens' = total_tokens + Len(r.token_ids)
                    /\ doc_count' = doc_count + 1
                    /\ fwd_pc' = IF limit.exists /\ doc_count + 1 >= limit.data
                                 THEN "validate" ELSE "loop"
                    /\ UNCHANGED docs_skipped
    /\ UNCHANGED <<corpus, limit, lexicon_bin, doc_ids_tsv, fwd_stats,
                   forward_index, lex_last, lex_calls>>

\* doc_iter is exhausted
FwdLoopEnd ==
    /\ fwd_pc = "loop"
    /\ file_idx = Len(corpus)
    /\ fwd_pc' = "validate"
    /\ UNCHANGED <<corpus, limit, file_idx, forward_records, doc_metadata,
                   doc_count, total_tokens, docs_skipped, lexicon_bin,
                   doc_ids_tsv, fwd_stats, forward_index, lexVars>>

\* mutant of FwdWrite: the output files are written without the check that
\* something was indexed
FwdWrite_unvalidated ==
    /\ fwd_pc = "validate"
    /\ fwd_pc' = "done"
    /\ output_dir' = TRUE
    /\ forward_index' = serialize_forward_index(forward_records)
    /\ lexicon_bin' = write_binary(id2word)
    /\ doc_ids_tsv' = File(doc_metadata)
    /\ fwd_stats' = Some([documents_indexed |-> doc_count,
                          unique_terms |-> Len(id2word),
                          total_tokens |-> total_tokens,
                          docs_skipped |-> docs_skipped,
                          doc_ids_recorded |-> Len(doc_metadata)])
    /\ UNCHANGED <<corpus, limit, file_idx, forward_records, doc_metadata,
                   doc_count, total_tokens, docs_skipped, lexVars>>

\* lines 150-189: RuntimeError when nothing was indexed, else the three
\* output files are written and the statistics returned
FwdWrite ==
    /\ fwd_pc = "validate"
    /\ IF forward_records = <<>>
       THEN /\ fwd_pc' = "failed"
            /\ UNCHANGED <<forward_index, lexicon_bin, doc_ids_tsv, fwd_stats,
                           output_dir>>
       ELSE /\ fwd_pc' = "done"
            /\ output_dir' = TRUE
            /\ forward_index' = serialize_forward_index(forward_records)
            /\ lexicon_bin' = write_binary(id2word)
            /\ doc_ids_tsv' = File(doc_metadata)
            /\ fwd_stats' = Some([documents_indexed |-> doc_count,
                                  unique_terms |-> Len(id2word),
                                  total_tokens |-> total_tokens,
                                  docs_skipped |-> docs_skipped,
                                  doc_ids_recorded |-> Len(doc_metadata)])
    /\ UNCHANGED <<corpus, limit, file_idx, forward_records, doc_metadata,
                   doc_count, total_tokens, docs_skipped, lexVars>>

(***************************************************************************)
(* What the forward index says, read directly from its records.            *)
(***************************************************************************)
ForwardTokens == UNION {SeqToSet(forward_index.data.records[i].token_ids) :
                            i \in DOMAIN forward_index.data.records}

DocsContaining(token_id) ==
    {forward_index.data.records[i].doc_id :
        i \in {j \in DOMAIN forward_index.data.records :
                    token_id \in SeqToSet(forward_index.data.records[j].token_ids)}}

StrictlyAscending(s) == \A i \in 1..(Len(s) - 1) : s[i] < s[i + 1]

InvertedRecords == inverted_index.data.records

\* the token ids a compact stream still holds behind its read position
Unread(i) ==
    IF handles[i] = 0 THEN {}
    ELSE {bucket_posting_files[i].data[k].token_id :
            k \in (handles[i] + 1)..Len(bucket_posting_files[i].data)}

PendingTokens == {e[1] : e \in heap} \cup UNION {Unread(i) : i \in DOMAIN handles}

(***************************************************************************)
(* C1: after build_inverted_index succeeds, the doc list written for every *)
(* token_id is non-empty, strictly ascending (hence without duplicates)    *)
(* and is exactly the set of doc_ids whose forward record holds the token. *)
(***************************************************************************)
C1_DocListsSortedUniqueExact ==
    inv_pc = "done" =>
        \A i \in DOMAIN InvertedRecords :
            LET r == InvertedRecords[i]
            IN  /\ r.doc_ids # <<>>
                /\ StrictlyAscending(r.doc_ids)
                /\ SeqToSet(r.doc_ids) = DocsContaining(r.token_id)

\* a finished build whose forward records come in descending doc_id order,
\* with a token repeated inside a document, and a two-document doc list
C1_Witness ==
    /\ inv_pc = "done"
    /\ num_buckets = 2
    /\ Len(forward_index.data.records) = 2
    /\ forward_index.data.records[1].doc_id > forward_index.data.records[2].doc_id
    /\ \E i \in DOMAIN forward_index.data.records :
         LET t == forward_index.data.records[i].token_ids
         IN  Len(t) = 2 /\ t[1] = t[2]
    /\ \E i \in DOMAIN InvertedRecords : Len(InvertedRecords[i].doc_ids) = 2

(***************************************************************************)
(* C2: the token records of inverted_index.bin are in strictly ascending   *)
(* token_id order and hold every token_id of the forward index exactly     *)
(* once; no token_id is in two compact bucket streams; whatever the merge  *)
(* has written is smaller than every token_id still pending.               *)
(***************************************************************************)
C2_TokenRecordsAscendingOnce ==
    /\ inv_pc \in {"merge", "merged", "done"} =>
         /\ StrictlyAscending([i \in DOMAIN InvertedRecords |->
                                    InvertedRecords[i].token_id])
         /\ \A i \in DOMAIN InvertedRecords : \A t \in PendingTokens :
                InvertedRecords[i].token_id < t
    /\ inv_pc \in {"pass2", "merge", "merged"} =>
         \A i, j \in DOMAIN bucket_posting_files :
            (i # j /\ bucket_posting_files[i].exists /\ bucket_posting_files[j].exists)
            => {bucket_posting_files[i].data[k].token_id :
                    k \in DOMAIN bucket_posting_files[i].data}
               \cap {bucket_posting_files[j].data[k].token_id :
                    k \in DOMAIN bucket_posting_files[j].data} = {}
    /\ inv_pc = "done" =>
         /\ {InvertedRecords[i].token_id : i \in DOMAIN InvertedRecords} = ForwardTokens
         /\ Len(InvertedRecords) = Cardinality(ForwardTokens)

\* a finished two-bucket build in which the merge interleaved the streams:
\* tokens 0 and 2 come from bucket 0, token 1 from bucket 1
C2_Witness ==
    /\ inv_pc = "done"
    /\ num_buckets = 2
    /\ Len(InvertedRecords) = 3
    /\ ForwardTokens = {0, 1, 2}

(***************************************************************************)
(* C3: the leading u32 of inverted_index.bin is 0 while the merge runs and *)
(* after a successful build equals the number of token records in the      *)
(* file, the number of distinct token_ids of the forward index and the     *)
(* returned unique_tokens statistic.                                       *)
(***************************************************************************)
C3_HeaderCountsTokenRecords ==
    /\ inv_pc = "merge" => inverted_index.data.vocab_size = 0
    /\ inv_pc = "done" =>
         /\ inverted_index.data.vocab_size = Len(InvertedRecords)
         /\ inverted_index.data.vocab_size = Cardinality(ForwardTokens)
         /\ inv_stats.data.unique_tokens = inverted_index.data.vocab_size

\* a finished build with three token records, so the patched header is 3
C3_Witness ==
    /\ inv_pc = "done"
    /\ inverted_index.data.vocab_size = 3
    /\ Len(forward_index.data.records) = 2

(***************************************************************************)
(* The barrel assigner and writer: BarrelAssigner, BarrelWriter,           *)
(* build_barrels (source/indexer/barrels.py).                              *)
(***************************************************************************)
MaxBarrels == 2

VARIABLES
    bar_pc,                   \* position in build_barrels / in the assigner driver
    num_barrels,              \* N: the regular barrels are 0..N-1, barrel N is barrel_freq
    frequent_threshold,       \* a fraction <<numerator, denominator>>
    bar_docs_read,            \* docs_read of the Pass 1 stream
    token_doc_counts,         \* dict in insertion order: Seq([tid, cnt])
    total_docs,
    token_to_barrel,          \* BarrelAssigner.token_to_barrel
    barrel_mapping,           \* barrel_mapping.bin
    barrel_files,             \* barrels/barrel_NN.bin (0..N-1) and barrel_freq.bin (N)
    docs_written,
    bar_stats

barLocal == <<bar_pc, num_barrels, frequent_threshold, bar_docs_read,
              token_doc_counts, total_docs, token_to_barrel, barrel_mapping,
              docs_written, bar_stats>>

barVars == <<barLocal, barrel_files>>

\* the frequent_threshold arguments of the model: 0.05 (the default), 0.5, 1.0
FrequentThresholds == {<<1, 20>>, <<1, 2>>, <<1, 1>>}

EmptyCounts == <<>>

\* token_doc_counts[tid] += 1 on a defaultdict(int): a new key goes last
increment(counts, tid) ==
    IF \E i \in DOMAIN counts : counts[i].tid = tid
    THEN [i \in DOMAIN counts |->
            IF counts[i].tid = tid
            THEN [tid |-> tid, cnt |-> counts[i].cnt + 1]
            ELSE counts[i]]
    ELSE Append(counts, [tid |-> tid, cnt |-> 1])

\* lines 180-182: for tid in unique: token_doc_counts[tid] += 1, with unique
\* given as the list the set iterates in (ascending for small integers)
RECURSIVE count_document(_, _)
count_document(counts, unique) ==
    IF unique = <<>> THEN counts
    ELSE count_document(increment(counts, Head(unique)), Tail(unique))

\* sorted(items, key=lambda kv: kv[1]): stable, ties keep the insertion order
RECURSIVE sorted_by_count(_)
sorted_by_count(items) ==
    IF items = <<>> THEN <<>>
    ELSE LET least == Min({items[i].cnt : i \in DOMAIN items})
             IsLeast(kv) == kv.cnt = least
             IsMore(kv) == kv.cnt > least
         IN  SelectSeq(items, IsLeast) \o sorted_by_count(SelectSeq(items, IsMore))

\* line 81: max(1, int(total_docs * frequent_threshold))
threshold_docs(total, threshold) ==
    Max({1, (total * threshold[1]) \div threshold[2]})

\* mutant of frequent_ids: a token at the threshold is not frequent
frequent_ids_strict(items, threshold) ==
    {items[i].tid : i \in {j \in DOMAIN items : items[j].cnt > threshold}}

\* line 84: {tid for tid, cnt in sorted_tokens if cnt >= threshold_docs}
frequent_ids(items, threshold) ==
    {items[i].tid : i \in {j \in DOMAIN items : items[j].cnt >= threshold}}

\* lines 100-104: min(int((idx / total_remaining) ** 0.6 * num_barrels),
\* num_barrels - 1); b <= (idx/R)^0.6 * N  iff  b^5 * R^3 <= idx^3 * N^5
barrel_idx(idx, total_remaining, N) ==
    LET transformed ==
            Max({b \in 0..N : (b^5) * (total_remaining^3) <= (idx^3) * (N^5)})
    IN  Min({transformed, N - 1})

\* BarrelAssigner.analyze on a fresh assigner: the token_to_barrel it leaves
analyze(counts, N, total, threshold) ==
    LET sorted_tokens == sorted_by_count(counts)
        frequent == frequent_ids(sorted_tokens, threshold_docs(total, threshold))
        IsRemaining(kv) == kv.tid \notin frequent
        remaining == SelectSeq(sorted_tokens, IsRemaining)
        total_remaining == Len(remaining)
        IndexOf(tid) == CHOOSE i \in DOMAIN remaining : remaining[i].tid = tid
    IN  [tid \in {counts[i].tid : i \in DOMAIN counts} |->
            IF tid \in frequent THEN N
            ELSE barrel_idx(IndexOf(tid) - 1, total_remaining, N)]

get_barrel(mapping, token_id) ==
    IF token_id \in DOMAIN mapping THEN mapping[token_id] ELSE -1

\* BarrelAssigner.save: the header and the mappings sorted by token_id
save(mapping, N) ==
    LET tids == sorted(DOMAIN mapping)
    IN  File([num_barrels |-> N,
              special_freq_barrel_id |-> N,
              mappings |-> [i \in DOMAIN tids |->
                              [token_id |-> tids[i], barrel_id |-> mapping[tids[i]]]]])

\* the keys of pos_map in insertion order: the order of first occurrence
RECURSIVE first_occurrences(_)
first_occurrences(token_ids) ==
    IF token_ids = <<>> THEN <<>>
    ELSE LET front == first_occurrences(SubSeq(token_ids, 1, Len(token_ids) - 1))
             last == token_ids[Len(token_ids)]
         IN  IF last \in SeqToSet(front) THEN front ELSE Append(front, last)

\* mutant of positions_of: positions counted from 1
positions_from_one(token_ids, tid) ==
    LET all == [i \in DOMAIN token_ids |-> i]
        Hit(p) == token_ids[p] = tid
    IN  SelectSeq(all, Hit)

\* lines 221-222: pos_map[tid], the 0-based positions of tid in enumerate order
positions_of(token_ids, tid) ==
    LET all == [i \in DOMAIN token_ids |-> i - 1]
        Hit(p) == token_ids[p + 1] = tid
    IN  SelectSeq(all, Hit)

\* mutant of resolve_barrel: the modulo fallback whatever the mapping says
resolve_barrel_modulo(N, token_id, barrel_id) ==
    IF N > 0 THEN token_id % N ELSE 0

\* lines 144-149: the file write_posting picks; barrel_id -1 stands for the
\* None that build_barrels passes for an unmapped token
resolve_barrel(N, token_id, barrel_id) ==
    LET chosen == IF barrel_id = -1
                  THEN (IF N > 0 THEN token_id % N ELSE 0)
                  ELSE barrel_id
    IN  IF chosen < 0 \/ chosen > N THEN N ELSE chosen

\* BarrelWriter.write_posting
write_posting(files, N, token_id, doc_id, freq, positions, barrel_id) ==
    LET b == resolve_barrel(N, token_id, barrel_id)
    IN  [files EXCEPT ![b] = Append(@, [token_id |-> token_id,
                                         doc_id |-> doc_id,
                                         freq |-> freq,
                                         positions_count |-> Len(positions),
                                         positions |-> positions])]

\* lines 224-230: one write_posting per key of pos_map
RECURSIVE write_document(_, _, _, _, _, _)
write_document(files, N, mapping, doc_idx, token_ids, keys) ==
    IF keys = <<>> THEN files
    ELSE LET tid == Head(keys)
             positions == positions_of(token_ids, tid)
             freq == Len(positions)
         IN  write_document(
                 write_posting(files, N, tid, doc_idx, freq, positions,
                               get_barrel(mapping, tid)),
                 N, mapping, doc_idx, token_ids, Tail(keys))

\* the forward indexes handed to build_barrels: the k-th record carries the
\* doc_id build_forward_index gives it (k - 1) or the next one, so that gaps
\* and repeated doc_ids occur
BarrelForwardFiles ==
    {file \in ForwardFiles :
        \A k \in DOMAIN file.data.records :
            file.data.records[k].doc_id \in {k - 1, k}}

BarInit ==
    /\ bar_pc = "pass1"
    /\ forward_index \in BarrelForwardFiles
    /\ num_barrels \in 1..MaxBarrels
    /\ frequent_threshold \in FrequentThresholds
    /\ bar_docs_read = 0
    /\ token_doc_counts = EmptyCounts
    /\ total_docs = 0
    /\ token_to_barrel = [t \in {} |-> 0]
    /\ barrel_mapping = NoFile
    /\ barrel_files = <<>>
    /\ docs_written = 0
    /\ bar_stats = None

\* build_barrels about to run with a fresh output location, on a forward
\* index path that may not exist
BarStartInit ==
    /\ bar_pc = "start"
    /\ forward_index \in {NoFile} \cup BarrelForwardFiles
    /\ num_barrels \in 1..MaxBarrels
    /\ frequent_threshold \in FrequentThresholds
    /\ bar_docs_read = 0
    /\ token_doc_counts = EmptyCounts
    /\ total_docs = 0
    /\ token_to_barrel = [t \in {} |-> 0]
    /\ barrel_mapping = NoFile
    /\ barrel_files = <<>>
    /\ docs_written = 0
    /\ bar_stats = None
    /\ input_dir = TRUE
    /\ output_dir = FALSE

\* the forward indexes build_forward_index writes: at least one record, the
\* k-th record carrying doc_id k - 1 and at least one token
BuiltForwardFiles ==
    {file \in ForwardFiles :
        /\ file.data.doc_count >= 1
        /\ \A k \in DOMAIN file.data.records :
              /\ file.data.records[k].doc_id = k - 1
              /\ file.data.records[k].token_ids # <<>>}

\* build_barrels about to run on a forward index of build_forward_index
BarBuiltInit ==
    /\ bar_pc = "pass1"
    /\ forward_index \in BuiltForwardFiles
    /\ num_barrels \in 1..MaxBarrels
    /\ frequent_threshold \in FrequentThresholds
    /\ bar_docs_read = 0
    /\ token_doc_counts = EmptyCounts
    /\ total_docs = 0
    /\ token_to_barrel = [t \in {} |-> 0]
    /\ barrel_mapping = NoFile
    /\ barrel_files = <<>>
    /\ docs_written = 0
    /\ bar_stats = None

BarIdle ==
    /\ bar_pc = "idle"
    /\ num_barrels = 1
    /\ frequent_threshold = <<1, 20>>
    /\ bar_docs_read = 0
    /\ token_doc_counts = EmptyCounts
    /\ total_docs = 0
    /\ token_to_barrel = [t \in {} |-> 0]
    /\ barrel_mapping = NoFile
    /\ docs_written = 0
    /\ bar_stats = None

\* lines 171-177: FileNotFoundError when the forward index is missing; else
\* Pass 1 begins
BarStart ==
    /\ bar_pc = "start"
    /\ bar_pc' = IF ~forward_index.exists THEN "failed" ELSE "pass1"
    /\ UNCHANGED <<num_barrels, frequent_threshold, bar_docs_read,
                   token_doc_counts, total_docs, token_to_barrel,
                   barrel_mapping, barrel_files, docs_written, bar_stats,
                   forward_index>>

\* lines 178-182: one iteration of the Pass 1 loop
BarPass1Doc ==
    /\ bar_pc = "pass1"
    /\ bar_docs_read < forward_index.data.doc_count
    /\ LET token_ids == forward_index.data.records[bar_docs_read + 1].token_ids
           unique == sorted(SeqToSet(token_ids))
       IN  token_doc_counts' = count_document(token_doc_counts, unique)
    /\ total_docs' = total_docs + 1
    /\ bar_docs_read' = bar_docs_read + 1
    /\ UNCHANGED <<bar_pc, num_barrels, frequent_threshold, token_to_barrel,
                   barrel_mapping, barrel_files, docs_written, bar_stats,
                   forward_index>>

\* lines 186-216: the end of Pass 1; analyze, save, open the barrel files
BarAssign ==
    /\ bar_pc = "pass1"
    /\ bar_docs_read = forward_index.data.doc_count
    /\ IF total_docs = 0
       THEN /\ bar_pc' = "failed"
            /\ UNCHANGED <<token_to_barrel, barrel_mapping, barrel_files,
                           output_dir>>
       ELSE /\ bar_pc' = "pass2"
            /\ output_dir' = TRUE
            /\ token_to_barrel' = analyze(token_doc_counts, num_barrels,
                                          total_docs, frequent_threshold)
            /\ barrel_mapping' = save(token_to_barrel', num_barrels)
            /\ barrel_files' = [b \in 0..num_barrels |-> <<>>]
    /\ UNCHANGED <<num_barrels, frequent_threshold, bar_docs_read,
                   token_doc_counts, total_docs, docs_written, bar_stats,
                   forward_index>>

\* mutant of BarPass2Doc: Pass 2 streams the documents last to first
BarPass2Doc_reversed ==
    /\ bar_pc = "pass2"
    /\ docs_written < forward_index.data.doc_count
    /\ LET record == forward_index.data.records[forward_index.data.doc_count - docs_written]
       IN  barrel_files' = write_document(barrel_files, num_barrels,
                                          token_to_barrel, record.doc_id,
                                          record.token_ids,
                                          first_occurrences(record.token_ids))
    /\ docs_written' = docs_written + 1
    /\ UNCHANGED <<bar_pc, num_barrels, frequent_threshold, bar_docs_read,
                   token_doc_counts, total_docs, token_to_barrel,
                   barrel_mapping, bar_stats, forward_index>>

\* lines 217-235: one iteration of the Pass 2 loop
BarPass2Doc ==
    /\ bar_pc = "pass2"
    /\ docs_written < forward_index.data.doc_count
    /\ LET record == forward_index.data.records[docs_written + 1]
       IN  barrel_files' = write_document(barrel_files, num_barrels,
                                          token_to_barrel, record.doc_id,
                                          record.token_ids,
                                          first_occurrences(record.token_ids))
    /\ docs_written' = docs_written + 1
    /\ UNCHANGED <<bar_pc, num_barrels, frequent_threshold, bar_docs_read,
                   token_doc_counts, total_docs, token_to_barrel,
                   barrel_mapping, bar_stats, forward_index>>

\* lines 237-244: close the writer and return the statistics
BarClose ==
    /\ bar_pc = "pass2"
    /\ docs_written = forward_index.data.doc_count
    /\ bar_pc' = "done"
    /\ bar_stats' = Some([documents_indexed |-> total_docs,
                          tokens_assigned |-> Cardinality(DOMAIN token_to_barrel),
                          unique_tokens_seen |-> Len(token_doc_counts)])
    /\ UNCHANGED <<num_barrels, frequent_threshold, bar_docs_read,
                   token_doc_counts, total_docs, token_to_barrel,
                   barrel_mapping, barrel_files, docs_written, forward_index>>

\* the document counts and corpus sizes handed to a BarrelAssigner directly
AssignerTotals == {1, 2, 3, 100}
AssignerCounts == {1, 2, 3, 10}

\* dicts of document frequencies: distinct tokens in any insertion order,
\* each found in at least one and at most total documents
CountDicts(total) ==
    {items \in UNION {[1..k -> [tid : TokenIds,
                                 cnt : {c \in AssignerCounts : c <= total}]] :
                        k \in 0..Cardinality(TokenIds)} :
        \A i, j \in DOMAIN items : i # j => items[i].tid # items[j].tid}

\* BarrelAssigner(num_barrels, total_docs, frequent_threshold)
AssignerInit ==
    /\ bar_pc = "assigner"
    /\ num_barrels \in 1..MaxBarrels
    /\ frequent_threshold \in FrequentThresholds
    /\ total_docs \in AssignerTotals
    /\ token_doc_counts \in CountDicts(total_docs)
    /\ bar_docs_read = 0
    /\ token_to_barrel = [t \in {} |-> 0]
    /\ barrel_mapping = NoFile
    /\ barrel_files = <<>>
    /\ docs_written = 0
    /\ bar_stats = None

\* BarrelAssigner.analyze
AssignerAnalyze ==
    /\ bar_pc = "assigner"
    /\ bar_pc' = "analyzed"
    /\ token_to_barrel' = analyze(token_doc_counts, num_barrels, total_docs,
                                  frequent_threshold)
    /\ UNCHANGED <<num_barrels, frequent_threshold, bar_docs_read,
                   token_doc_counts, total_docs, barrel_mapping, barrel_files,
                   docs_written, bar_stats>>

\* BarrelAssigner.save
AssignerSave ==
    /\ bar_pc = "analyzed"
    /\ bar_pc' = "saved"
    /\ output_dir' = TRUE
    /\ barrel_mapping' = save(token_to_barrel, num_barrels)
    /\ UNCHANGED <<num_barrels, frequent_threshold, bar_docs_read,
                   token_doc_counts, total_docs, token_to_barrel, barrel_files,
                   docs_written, bar_stats>>

(***************************************************************************)
(* The postings consolidator: scan_barrels and write_postings_index        *)
(* (scripts/build_postings_index.py).                                      *)
(***************************************************************************)
MaxRecords == 3
MaxThreshold == 2

VARIABLES
    post_pc,                    \* position in main
    PER_TOKEN_INMEM_THRESHOLD,  \* the tunable of line 23
    scan_idx,                   \* barrel records consumed by the scan, over all files
    token_inmem,                \* dict token_id -> Seq([doc_id, freq, positions])
    token_disk_counts,          \* dict token_id -> number of spilled postings
    seen_tokens,
    spill_files,                \* tmp_dir/token_<id>.bin, for the ids in its domain
    write_idx,                  \* tokens of sorted(seen_tokens) already written
    index_tmp,                  \* postings_index.bin.tmp
    offsets_records,
    offsets_tmp,                \* postings_offsets.bin.tmp
    postings_index,             \* postings_index.bin
    postings_offsets,           \* postings_offsets.bin
    post_runs                   \* runs of main started so far

postLocal == <<post_pc, PER_TOKEN_INMEM_THRESHOLD, scan_idx, token_inmem,
               token_disk_counts, seen_tokens, spill_files, write_idx,
               index_tmp, offsets_records, offsets_tmp, postings_index,
               postings_offsets, post_runs>>

EmptyDir == [t \in {} |-> <<>>]

\* the positional records found in barrel files
PostingPool ==
    {[token_id |-> t, doc_id |-> d, freq |-> Len(p),
      positions_count |-> Len(p), positions |-> p] :
        t \in 0..1, d \in 0..1, p \in {<<0>>, <<0, 2>>}}

\* a barrels directory holding barrel_00.bin (0) and barrel_freq.bin (1)
BarrelDirs ==
    {[b \in 0..1 |-> IF b = 0 THEN SubSeq(rs, 1, k) ELSE SubSeq(rs, k + 1, Len(rs))] :
        <<rs, k>> \in {<<s, j>> \in (UNION {[1..n -> PostingPool] : n \in 0..MaxRecords})
                                      \X (0..MaxRecords) : j <= Len(s)}}

\* lines 38-53: the records one barrel file yields; a record whose positions
\* payload is shorter than its positions_count is where the file ends, and
\* the short read of line 50 breaks out of the loop
RECURSIVE read_records(_)
read_records(records) ==
    IF records = <<>> THEN <<>>
    ELSE IF Len(Head(records).positions) < Head(records).positions_count
         THEN <<>>
         ELSE <<Head(records)>> \o read_records(Tail(records))

\* line 73 and lines 32-53: the records of the barrel files, streamed in the
\* sorted order of the file names (barrel_00 .. barrel_NN, then barrel_freq)
RECURSIVE stream_from(_, _)
stream_from(files, b) ==
    IF b \notin DOMAIN files THEN <<>>
    ELSE read_records(files[b]) \o stream_from(files, b + 1)

stream_barrel_records(files) == stream_from(files, 0)

\* dict.get(key, default)
dict_get(d, key, default) == IF key \in DOMAIN d THEN d[key] ELSE default

dict_set(d, key, value) == [k \in DOMAIN d \cup {key} |-> IF k = key THEN value ELSE d[k]]

\* lines 108-110 and 173-175: a posting as the bytes struct.pack writes
serialize_posting(posting) ==
    [doc_id |-> posting.doc_id, freq |-> posting.freq,
     positions_count |-> Len(posting.positions), positions |-> posting.positions]

serialize_postings(postings) ==
    [i \in DOMAIN postings |-> serialize_posting(postings[i])]

\* mutant of spill_append: the spill file is opened in "wb" mode
spill_overwrite(dir, token_id, postings) ==
    dict_set(dir, token_id, serialize_postings(postings))

\* lines 105-110: open(tmp_path, "ab") and write the in-memory list
spill_append(dir, token_id, postings) ==
    dict_set(dir, token_id,
             dict_get(dir, token_id, <<>>) \o serialize_postings(postings))

\* sizes in bytes: a record is three u32 and its positions, a block a u32 and
\* its records
RECURSIVE records_size(_)
records_size(records) ==
    IF records = <<>> THEN 0
    ELSE 12 + 4 * Len(Head(records).positions) + records_size(Tail(records))

block_size(block) == 4 + records_size(block.records)

\* idx_f.tell()
RECURSIVE tell(_)
tell(blocks) ==
    IF blocks = <<>> THEN 0 ELSE block_size(Head(blocks)) + tell(Tail(blocks))

PostInit ==
    /\ post_pc = "scan"
    /\ post_runs = 1
    /\ barrel_files \in BarrelDirs
    /\ PER_TOKEN_INMEM_THRESHOLD \in 1..MaxThreshold
    /\ scan_idx = 0
    /\ token_inmem = EmptyDir
    /\ token_disk_counts = [t \in {} |-> 0]
    /\ seen_tokens = {}
    /\ spill_files = EmptyDir
    /\ write_idx = 0
    /\ index_tmp = NoFile
    /\ offsets_records = <<>>
    /\ offsets_tmp = NoFile
    /\ postings_index = NoFile
    /\ postings_offsets = NoFile

PostIdle ==
    /\ post_pc = "idle"
    /\ post_runs = 0
    /\ PER_TOKEN_INMEM_THRESHOLD = 1
    /\ scan_idx = 0
    /\ token_inmem = EmptyDir
    /\ token_disk_counts = [t \in {} |-> 0]
    /\ seen_tokens = {}
    /\ spill_files = EmptyDir
    /\ write_idx = 0
    /\ index_tmp = NoFile
    /\ offsets_records = <<>>
    /\ offsets_tmp = NoFile
    /\ postings_index = NoFile
    /\ postings_offsets = NoFile

\* mutant of PostScanRecord: the list is spilled once it exceeds the threshold
PostScanRecord_spills_late ==
    /\ post_pc = "scan"
    /\ scan_idx < Len(stream_barrel_records(barrel_files))
    /\ LET record == stream_barrel_records(barrel_files)[scan_idx + 1]
           token_id == record.token_id
           postings == Append(dict_get(token_inmem, token_id, <<>>),
                              [doc_id |-> record.doc_id, freq |-> record.freq,
                               positions |-> record.positions])
       IN  /\ seen_tokens' = seen_tokens \cup {token_id}
           /\ IF Len(postings) > PER_TOKEN_INMEM_THRESHOLD
              THEN /\ spill_files' = spill_append(spill_files, token_id, postings)
                   /\ token_disk_counts' =
                          dict_set(token_disk_counts, token_id,
                                   dict_get(token_disk_counts, token_id, 0)
                                       + Len(postings))
                   /\ token_inmem' = dict_set(token_inmem, token_id, <<>>)
              ELSE /\ token_inmem' = dict_set(token_inmem, token_id, postings)
                   /\ UNCHANGED <<spill_files, token_disk_counts>>
    /\ scan_idx' = scan_idx + 1
    /\ UNCHANGED <<post_runs, post_pc, PER_TOKEN_INMEM_THRESHOLD, write_idx, index_tmp,
                   offsets_records, offsets_tmp, postings_index,
                   postings_offsets, barrel_files>>

\* lines 89-115: one record of the scan, with the spill it may trigger
PostScanRecord ==
    /\ post_pc = "scan"
    /\ scan_idx < Len(stream_barrel_records(barrel_files))
    /\ LET record == stream_barrel_records(barrel_files)[scan_idx + 1]
           token_id == record.token_id
           postings == Append(dict_get(token_inmem, token_id, <<>>),
                              [doc_id |-> record.doc_id, freq |-> record.freq,
                               positions |-> record.positions])
       IN  /\ seen_tokens' = seen_tokens \cup {token_id}
           /\ IF Len(postings) >= PER_TOKEN_INMEM_THRESHOLD
              THEN /\ spill_files' = spill_append(spill_files, token_id, postings)
                   /\ token_disk_counts' =
                          dict_set(token_disk_counts, token_id,
                                   dict_get(token_disk_counts, token_id, 0)
                                       + Len(postings))
                   /\ token_inmem' = dict_set(token_inmem, token_id, <<>>)
              ELSE /\ token_inmem' = dict_set(token_inmem, token_id, postings)
                   /\ UNCHANGED <<spill_files, token_disk_counts>>
    /\ scan_idx' = scan_idx + 1
    /\ UNCHANGED <<post_runs, post_pc, PER_TOKEN_INMEM_THRESHOLD, write_idx, index_tmp,
                   offsets_records, offsets_tmp, postings_index,
                   postings_offsets, barrel_files>>

\* lines 128-142: scan_barrels returns; write_postings_index opens the index
PostScanEnd ==
    /\ post_pc = "scan"
    /\ scan_idx = Len(stream_barrel_records(barrel_files))
    /\ post_pc' = "write"
    /\ index_tmp' = File(<<>>)
    /\ offsets_records' = <<>>
    /\ write_idx' = 0
    /\ UNCHANGED <<post_runs, PER_TOKEN_INMEM_THRESHOLD, scan_idx, token_inmem,
                   token_disk_counts, seen_tokens, spill_files, offsets_tmp,
                   postings_index, postings_offsets, barrel_files>>

\* lines 144-178: one token of sorted(seen_tokens)
PostWriteToken ==
    /\ post_pc = "write"
    /\ write_idx < Cardinality(seen_tokens)
    /\ LET token_id == sorted(seen_tokens)[write_idx + 1]
           disk_count == dict_get(token_disk_counts, token_id, 0)
           inmem_list == dict_get(token_inmem, token_id, <<>>)
           total_count == disk_count + Len(inmem_list)
           spilled == IF disk_count # 0 /\ token_id \in DOMAIN spill_files
                      THEN spill_files[token_id]
                      ELSE <<>>
           block == [count |-> total_count,
                     records |-> spilled \o serialize_postings(inmem_list)]
           start_off == tell(index_tmp.data)
       IN  IF total_count = 0
           THEN UNCHANGED <<index_tmp, offsets_records>>
           ELSE /\ index_tmp' = File(Append(index_tmp.data, block))
                /\ offsets_records' =
                       Append(offsets_records,
                              [token_id |-> token_id, offset |-> start_off,
                               length |-> block_size(block)])
    /\ write_idx' = write_idx + 1
    /\ UNCHANGED <<post_runs, post_pc, PER_TOKEN_INMEM_THRESHOLD, scan_idx, token_inmem,
                   token_disk_counts, seen_tokens, spill_files, offsets_tmp,
                   postings_index, postings_offsets, barrel_files>>

\* lines 195-200: the offsets table
PostWriteOffsets ==
    /\ post_pc = "write"
    /\ write_idx = Cardinality(seen_tokens)
    /\ post_pc' = "replace_index"
    /\ offsets_tmp' = File([count |-> Len(offsets_records),
                            entries |-> offsets_records])
    /\ UNCHANGED <<post_runs, PER_TOKEN_INMEM_THRESHOLD, scan_idx, token_inmem,
                   token_disk_counts, seen_tokens, spill_files, write_idx,
                   index_tmp, offsets_records, postings_index,
                   postings_offsets, barrel_files>>

\* line 207: os.replace(index_tmp, postings_index.bin)
PostReplaceIndex ==
    /\ post_pc = "replace_index"
    /\ post_pc' = "replace_offsets"
    /\ postings_index' = index_tmp
    /\ index_tmp' = NoFile
    /\ UNCHANGED <<post_runs, PER_TOKEN_INMEM_THRESHOLD, scan_idx, token_inmem,
                   token_disk_counts, seen_tokens, spill_files, write_idx,
                   offsets_records, offsets_tmp, postings_offsets,
                   barrel_files>>

\* line 208: os.replace(offsets_tmp, postings_offsets.bin)
PostReplaceOffsets ==
    /\ post_pc = "replace_offsets"
    /\ post_pc' = "cleanup"
    /\ postings_offsets' = offsets_tmp
    /\ offsets_tmp' = NoFile
    /\ UNCHANGED <<post_runs, PER_TOKEN_INMEM_THRESHOLD, scan_idx, token_inmem,
                   token_disk_counts, seen_tokens, spill_files, write_idx,
                   index_tmp, offsets_records, postings_index, barrel_files>>

\* lines 214-221: remove the spill files of the seen tokens
PostCleanup ==
    /\ post_pc = "cleanup"
    /\ post_pc' = "done"
    /\ spill_files' = [t \in DOMAIN spill_files \ seen_tokens |-> spill_files[t]]
    /\ UNCHANGED <<post_runs, PER_TOKEN_INMEM_THRESHOLD, scan_idx, token_inmem,
                   token_disk_counts, seen_tokens, write_idx, index_tmp,
                   offsets_records, offsets_tmp, postings_index,
                   postings_offsets, barrel_files>>

\* the bytes of postings_index.bin as u32 words: per block the count, then
\* per record doc_id, freq, positions_count and the positions (lines 154-175)
RECURSIVE record_words(_)
record_words(records) ==
    IF records = <<>> THEN <<>>
    ELSE <<Head(records).doc_id, Head(records).freq, Head(records).positions_count>>
         \o Head(records).positions \o record_words(Tail(records))

RECURSIVE index_words(_)
index_words(blocks) ==
    IF blocks = <<>> THEN <<>>
    ELSE <<Head(blocks).count>> \o record_words(Head(blocks).records)
         \o index_words(Tail(blocks))

\* the files an earlier successful build, on other barrel files, left at the
\* final names
PriorIndex ==
    File(<< [count |-> 1,
             records |-> << [doc_id |-> 0, freq |-> 3, positions_count |-> 3,
                             positions |-> <<1, 2, 3>>] >>] >>)

PriorOffsets ==
    File([count |-> 1,
          entries |-> << [token_id |-> 0, offset |-> 0, length |-> 28] >>])

MaxRuns == 2

\* main started in an output directory that holds an earlier build; the
\* scratch directory is empty
PostCrashInit ==
    /\ post_pc = "scan"
    /\ post_runs = 1
    /\ barrel_files \in BarrelDirs
    /\ PER_TOKEN_INMEM_THRESHOLD \in 1..MaxThreshold
    /\ scan_idx = 0
    /\ token_inmem = EmptyDir
    /\ token_disk_counts = [t \in {} |-> 0]
    /\ seen_tokens = {}
    /\ spill_files = EmptyDir
    /\ write_idx = 0
    /\ index_tmp = NoFile
    /\ offsets_records = <<>>
    /\ offsets_tmp = NoFile
    /\ postings_index = PriorIndex
    /\ postings_offsets = PriorOffsets

\* the record a barrel file ends in when it was cut inside a positions
\* payload: two positions declared, one present
ShortRecords ==
    {[token_id |-> t, doc_id |-> d, freq |-> 2,
      positions_count |-> 2, positions |-> <<0>>] : t \in 0..1, d \in 0..1}

\* a barrels directory whose barrel_00.bin ends inside a record
TruncatedBarrelDirs ==
    {[b \in 0..1 |-> IF b = 0 THEN Append(SubSeq(rs, 1, k), short)
                               ELSE SubSeq(rs, k + 1, Len(rs))] :
        <<rs, k, short>> \in
            {<<s, j, r>> \in (UNION {[1..n -> PostingPool] : n \in 0..(MaxRecords - 1)})
                              \X (0..MaxRecords) \X ShortRecords : j <= Len(s)}}

\* main started on a truncated barrel file, in an output directory that
\* holds an earlier build
PostTruncInit ==
    /\ post_pc = "scan"
    /\ post_runs = 1
    /\ barrel_files \in TruncatedBarrelDirs
    /\ PER_TOKEN_INMEM_THRESHOLD \in 1..MaxThreshold
    /\ scan_idx = 0
    /\ token_inmem = EmptyDir
    /\ token_disk_counts = [t \in {} |-> 0]
    /\ seen_tokens = {}
    /\ spill_files = EmptyDir
    /\ write_idx = 0
    /\ index_tmp = NoFile
    /\ offsets_records = <<>>
    /\ offsets_tmp = NoFile
    /\ postings_index = PriorIndex
    /\ postings_offsets = PriorOffsets

\* the process dies between two steps (an exception, a kill, a power cut):
\* what it held in memory is gone, every file stays as it is
PostAbort ==
    /\ post_pc \in {"scan", "write", "replace_index", "replace_offsets", "cleanup"}
    /\ post_pc' = "aborted"
    /\ scan_idx' = 0
    /\ token_inmem' = EmptyDir
    /\ token_disk_counts' = [t \in {} |-> 0]
    /\ seen_tokens' = {}
    /\ write_idx' = 0
    /\ offsets_records' = <<>>
    /\ UNCHANGED <<post_runs, PER_TOKEN_INMEM_THRESHOLD, spill_files, index_tmp,
                   offsets_tmp, postings_index, postings_offsets, barrel_files>>

\* lines 232-246: main is run again on the same output directory;
\* ensure_dir(tmp_dir) keeps what the scratch directory holds
PostRestart ==
    /\ post_pc \in {"aborted", "done"}
    /\ post_runs < MaxRuns
    /\ post_runs' = post_runs + 1
    /\ post_pc' = "scan"
    /\ scan_idx' = 0
    /\ token_inmem' = EmptyDir
    /\ token_disk_counts' = [t \in {} |-> 0]
    /\ seen_tokens' = {}
    /\ write_idx' = 0
    /\ offsets_records' = <<>>
    /\ UNCHANGED <<PER_TOKEN_INMEM_THRESHOLD, spill_files, index_tmp,
                   offsets_tmp, postings_index, postings_offsets, barrel_files>>

\* lines 232-246 of build_postings_index.py: main is run on the barrels
\* directory build_barrels has finished, with an empty scratch directory
PostStart ==
    /\ post_pc = "idle"
    /\ bar_pc = "done"
    /\ post_pc' = "scan"
    /\ post_runs' = 1
    /\ PER_TOKEN_INMEM_THRESHOLD' \in 1..MaxThreshold
    /\ UNCHANGED <<scan_idx, token_inmem, token_disk_counts, seen_tokens,
                   spill_files, write_idx, index_tmp, offsets_records,
                   offsets_tmp, postings_index, postings_offsets, barrel_files>>

(***************************************************************************)
(* The validator: scripts/validate_postings.py.                            *)
(***************************************************************************)
\* read_offsets: token_id -> (offset, length)
read_offsets(file) ==
    [t \in {file.data.entries[i].token_id : i \in DOMAIN file.data.entries} |->
        LET i == CHOOSE i \in DOMAIN file.data.entries : file.data.entries[i].token_id = t
        IN  [offset |-> file.data.entries[i].offset,
             length |-> file.data.entries[i].length]]

\* idx.seek(off); idx.read(length) followed by parse_index_block: the
\* (doc_id, freq, positions) triples of the block that starts at byte off,
\* or <<>> when no block starts there
parse_index_block(blocks, off) ==
    LET starts == {i \in DOMAIN blocks : tell(SubSeq(blocks, 1, i - 1)) = off}
    IN  IF starts = {} THEN <<>>
        ELSE LET block == blocks[CHOOSE i \in starts : TRUE]
             IN  [k \in 1..Min({block.count, Len(block.records)}) |->
                    [doc_id |-> block.records[k].doc_id,
                     freq |-> block.records[k].freq,
                     positions |-> block.records[k].positions]]

\* results.sort(key=lambda x: x[0]): stable, by doc_id
RECURSIVE sort_by_doc_id(_)
sort_by_doc_id(results) ==
    IF results = <<>> THEN <<>>
    ELSE LET least == Min({results[i].doc_id : i \in DOMAIN results})
             IsLeast(r) == r.doc_id = least
             IsMore(r) == r.doc_id > least
         IN  SelectSeq(results, IsLeast) \o sort_by_doc_id(SelectSeq(results, IsMore))

\* aggregate_from_barrels: the postings of one token over the barrel files in
\* name order, sorted by doc_id
aggregate_from_barrels(files, token_id) ==
    LET OfToken(r) == r.token_id = token_id
        hits == SelectSeq(stream_barrel_records(files), OfToken)
    IN  sort_by_doc_id([k \in DOMAIN hits |->
                           [doc_id |-> hits[k].doc_id, freq |-> hits[k].freq,
                            positions |-> hits[k].positions]])

\* validate_token
validate_token(token_id) ==
    LET mapping == read_offsets(postings_offsets)
    IN  IF token_id \notin DOMAIN mapping THEN FALSE
        ELSE LET postings_block == parse_index_block(postings_index.data,
                                                     mapping[token_id].offset)
                 barrel_postings == aggregate_from_barrels(barrel_files, token_id)
             IN  /\ Len(postings_block) = Len(barrel_postings)
                 /\ \A k \in DOMAIN postings_block :
                        postings_block[k] = barrel_postings[k]

(***************************************************************************)
(* Enumerating the dataset: iter_source_files of lexicon.py (and of        *)
(* indexing.py, which differs only in testing that a folder exists).       *)
(* A file name is <paper id><extension>; names of one folder are listed in *)
(* sorted order.                                                           *)
(***************************************************************************)
VARIABLES
    pmc_dir,                  \* pmc_json: Some(set of file names) or None
    pdf_dir,                  \* pdf_json: Some(set of file names) or None
    iter_pc,                  \* position in the generator
    folder_idx,               \* index into (("pmc", PMC_DIR), ("pdf", PDF_DIR))
    listing,                  \* sorted(folder.glob("*.json")) of the current folder
    list_pos,                 \* names of listing already visited
    seen,                     \* the set seen of paper ids
    yielded                   \* the (tag, path) pairs yielded so far

iterVars == <<pmc_dir, pdf_dir, iter_pc, folder_idx, listing, list_pos, seen,
              yielded>>

PaperIds == 1..2
Extensions == {".json", ".xml.json"}
FileNames == [id : PaperIds, ext : Extensions]

\* the position of a name among the names of the model in string order:
\* names differ first in the paper id, then "<id>.json" < "<id>.xml.json"
name_key(name) == 2 * name.id + (IF name.ext = ".json" THEN 0 ELSE 1)

\* sorted(folder.glob("*.json"))
RECURSIVE sorted_paths(_)
sorted_paths(S) ==
    IF S = {} THEN <<>>
    ELSE LET first == CHOOSE n \in S : \A o \in S : name_key(n) <= name_key(o)
         IN  <<first>> \o sorted_paths(S \ {first})

\* json_path.stem: the name without its last suffix
stem(name) == [id |-> name.id, rest |-> IF name.ext = ".xml.json" THEN ".xml" ELSE ""]

\* mutant of paper_id_of: the whole stem is taken as the paper id
paper_id_of_stem(name) == stem(name)

\* line 42: paper_id = json_path.stem.split(".")[0]
paper_id_of(name) == stem(name).id

Folders == <<"pmc", "pdf">>

folder_at(idx) == IF idx = 0 THEN pmc_dir ELSE pdf_dir

IterInit ==
    /\ pmc_dir \in {None} \cup {Some(S) : S \in SUBSET FileNames}
    /\ pdf_dir \in {None} \cup {Some(S) : S \in SUBSET FileNames}
    /\ iter_pc = "folder"
    /\ folder_idx = 0
    /\ listing = <<>>
    /\ list_pos = 0
    /\ seen = {}
    /\ yielded = <<>>

IterIdle ==
    /\ pmc_dir = None
    /\ pdf_dir = None
    /\ iter_pc = "idle"
    /\ folder_idx = 0
    /\ listing = <<>>
    /\ list_pos = 0
    /\ seen = {}
    /\ yielded = <<>>

\* line 40-41: the next folder is listed; a folder that is not there gives no
\* names (indexing.py lines 153-154 skip it)
IterOpenFolder ==
    /\ iter_pc = "folder"
    /\ folder_idx < Len(Folders)
    /\ listing' = IF folder_at(folder_idx).exists
                  THEN sorted_paths(folder_at(folder_idx).data) ELSE <<>>
    /\ list_pos' = 0
    /\ iter_pc' = "files"
    /\ UNCHANGED <<pmc_dir, pdf_dir, folder_idx, seen, yielded>>

\* lines 41-46: one name of the listing
IterFile ==
    /\ iter_pc = "files"
    /\ list_pos < Len(listing)
    /\ LET json_path == listing[list_pos + 1]
           paper_id == paper_id_of(json_path)
       IN  IF paper_id \in seen
           THEN UNCHANGED <<seen, yielded>>
           ELSE /\ seen' = seen \cup {paper_id}
                /\ yielded' = Append(yielded,
                        [tag |-> Folders[folder_idx + 1], path |-> json_path])
    /\ list_pos' = list_pos + 1
    /\ UNCHANGED <<pmc_dir, pdf_dir, iter_pc, folder_idx, listing>>

\* the listing is exhausted: on to the next folder, or the generator ends
IterFolderEnd ==
    /\ iter_pc = "files"
    /\ list_pos = Len(listing)
    /\ folder_idx' = folder_idx + 1
    /\ iter_pc' = IF folder_idx + 1 = Len(Folders) THEN "done" ELSE "folder"
    /\ UNCHANGED <<pmc_dir, pdf_dir, listing, list_pos, seen, yielded>>

(***************************************************************************)
(* Tokenizing: tokenize of lexicon.py, which build_forward_index calls,    *)
(* and tokenize of indexing.py.  A text is a sequence of characters drawn  *)
(* from one representative of each class the two functions tell apart.     *)
(***************************************************************************)
VARIABLES
    tok_text,                 \* the text argument
    tok_stopwords,            \* the stopwords argument
    tok_pc,                   \* which tokenizer has run
    tok_result                \* the returned list of tokens, or None

tokVars == <<tok_text, tok_stopwords, tok_pc, tok_result>>

MaxText == 3

\* "a": ASCII lower-case letter      "A": ASCII upper-case letter
\* "1": ASCII digit                  "a_ring": U+00E5, "A_ring": U+00C5
\* "circled_1": U+2460, NFKC gives "1"      " ": white space
Characters == {"a", "A", "1", "a_ring", "A_ring", "circled_1", " "}

Texts == UNION {[1..k -> Characters] : k \in 0..MaxText}

StopwordSets == {{}, {<<"a">>}, {<<"a", "1">>}}

\* str.lower on one character
lower(char) ==
    IF char = "A" THEN "a" ELSE IF char = "A_ring" THEN "a_ring" ELSE char

\* unicodedata.normalize("NFKC", .) on one character
NFKC(char) == IF char = "circled_1" THEN "1" ELSE char

\* str.isalnum: letters and digits of any script, circled digits included
isalnum(char) == char # " "

\* lexicon.py line 25: TOKEN_RE = re.compile(r"[a-z0-9]+")
TOKEN_RE(char) == char \in {"a", "1"}

\* TOKEN_RE.findall: the maximal runs of characters the class matches
RECURSIVE findall(_, _)
findall(string, current) ==
    IF string = <<>>
    THEN IF current = <<>> THEN <<>> ELSE <<current>>
    ELSE IF TOKEN_RE(Head(string))
         THEN findall(Tail(string), Append(current, Head(string)))
         ELSE (IF current = <<>> THEN <<>> ELSE <<current>>)
              \o findall(Tail(string), <<>>)

\* lexicon.py lines 52-54
tokenize(txt, stops) ==
    SelectSeq(findall([i \in 1..Len(txt) |-> lower(txt[i])], <<>>),
              LAMBDA token : token \notin stops)

\* indexing.py lines 87-92: _flush_current, returning the new tokens list
flush_current(toks, current, stops) ==
    IF current # <<>> /\ current \notin stops THEN Append(toks, current) ELSE toks

\* indexing.py lines 94-100: the character loop and the last flush
RECURSIVE char_loop(_, _, _, _)
char_loop(normalized, toks, current, stops) ==
    IF normalized = <<>>
    THEN flush_current(toks, current, stops)
    ELSE IF isalnum(Head(normalized))
         THEN char_loop(Tail(normalized), toks,
                        Append(current, Head(normalized)), stops)
         ELSE char_loop(Tail(normalized),
                        flush_current(toks, current, stops), <<>>, stops)

\* indexing.py lines 77-101
indexing_tokenize(txt, stops) ==
    char_loop([i \in 1..Len(txt) |-> lower(NFKC(txt[i]))], <<>>, <<>>, stops)

TokInit ==
    /\ tok_text \in Texts
    /\ tok_stopwords \in StopwordSets
    /\ tok_pc = "start"
    /\ tok_result = None

TokIdle ==
    /\ tok_text = <<>>
    /\ tok_stopwords = {}
    /\ tok_pc = "idle"
    /\ tok_result = None

\* forward_index.py line 121: tokens = lexicon.tokenize(doc["text"], stopwords)
LexiconTokenize ==
    /\ tok_pc = "start"
    /\ tok_result' = Some(tokenize(tok_text, tok_stopwords))
    /\ tok_pc' = "lexicon"
    /\ UNCHANGED <<tok_text, tok_stopwords>>

\* indexing.py: tokens = tokenize(doc["text"], stopwords)
IndexingTokenize ==
    /\ tok_pc = "start"
    /\ tok_result' = Some(indexing_tokenize(tok_text, tok_stopwords))
    /\ tok_pc' = "indexing"
    /\ UNCHANGED <<tok_text, tok_stopwords>>

(***************************************************************************)
(* The ranker: rank_docs and is_relevant of search/ranking.py, called for  *)
(* a single-term query (intersections is None, so the multiplier is 1) on  *)
(* one document.                                                           *)
(***************************************************************************)
VARIABLES
    hit_list,                 \* the hit list of the document
    rank_pc,                  \* position in rank_docs
    rank_i,                   \* the loop index i
    rank_step,                \* the direction step: 1 or -1
    added,                    \* added[f]: the bonus of field f was given
    this_score,
    examined,                 \* examined[k]: how often index k was read
    top_docs,                 \* the returned list of (score, doc_id)
    relevant                  \* what is_relevant(hit_list) returned, or None

rankVars == <<hit_list, rank_pc, rank_i, rank_step, added, this_score,
              examined, top_docs, relevant>>

MaxHits == 4

\* hits of every field code, some with higher digits set
Hits == {0, 1, 2, 3, 4, 5, 11, 20}

\* hit lists of up to MaxHits hits, and lists with more than 20 hits: a run of
\* 21 body hits between up to one hit before and one after
HitLists ==
    UNION {[1..k -> Hits] : k \in 0..MaxHits}
    \cup {before \o [k \in 1..21 |-> 1] \o after :
            before \in UNION {[1..k -> Hits] : k \in 0..1},
            after \in UNION {[1..k -> Hits] : k \in 0..1}}

\* Python's hit_list[i], i counted from 0
hit_at(hits, i) == hits[i + 1]

\* lines 94-118
is_relevant(hits) ==
    IF hits = <<>> THEN FALSE
    ELSE IF hits[1] % 10 # 1 THEN TRUE
    ELSE IF hits[Len(hits)] % 10 # 1 THEN TRUE
    ELSE FALSE

\* lines 56-71: the bonus a hit of this field earns when it was not yet given
field_bonus(hit_field) ==
    IF hit_field = 0 THEN 50
    ELSE IF hit_field = 2 THEN 30
    ELSE IF hit_field = 3 THEN 20
    ELSE IF hit_field = 5 THEN 30
    ELSE 0

RankInit ==
    /\ hit_list \in HitLists
    /\ rank_pc = "start"
    /\ rank_i = 0
    /\ rank_step = 1
    /\ added = [f \in 0..5 |-> FALSE]
    /\ this_score = 0
    /\ examined = [k \in {} |-> 0]
    /\ top_docs = <<>>
    /\ relevant = None

RankIdle ==
    /\ hit_list = <<>>
    /\ rank_pc = "idle"
    /\ rank_i = 0
    /\ rank_step = 1
    /\ added = [f \in 0..5 |-> FALSE]
    /\ this_score = 0
    /\ examined = [k \in {} |-> 0]
    /\ top_docs = <<>>
    /\ relevant = None

\* lines 31-49: the base score, the flags, the loop variables
RankBegin ==
    /\ rank_pc = "start"
    /\ this_score' = Min({Len(hit_list), 20})
    /\ added' = [f \in 0..5 |-> FALSE]
    /\ rank_i' = 0
    /\ rank_step' = 1
    /\ examined' = [k \in 0..(Len(hit_list) - 1) |-> 0]
    /\ rank_pc' = "loop"
    /\ UNCHANGED <<hit_list, top_docs, relevant>>

\* mutant of RankStep: a body hit met while moving backward restarts the
\* backward scan from the last index instead of leaving the loop
RankStep_rescans ==
    /\ rank_pc = "loop"
    /\ rank_i >= 0 /\ rank_i < Len(hit_list)
    /\ LET hit == hit_at(hit_list, rank_i)
           hit_field == hit % 10
       IN  /\ examined' = [examined EXCEPT ![rank_i] = @ + 1]
           /\ IF hit_field \in {0, 2, 3, 5} /\ ~added[hit_field]
              THEN /\ this_score' = this_score + field_bonus(hit_field)
                   /\ added' = [added EXCEPT ![hit_field] = TRUE]
              ELSE UNCHANGED <<this_score, added>>
           /\ IF hit_field = 1
              THEN /\ rank_i' = Len(hit_list) - 1
                   /\ rank_step' = -1
                   /\ rank_pc' = "loop"
              ELSE /\ rank_i' = rank_i + rank_step
                   /\ UNCHANGED <<rank_step, rank_pc>>
    /\ UNCHANGED <<hit_list, top_docs, relevant>>

\* lines 51-84: one iteration of the while loop
RankStep ==
    /\ rank_pc = "loop"
    /\ rank_i >= 0 /\ rank_i < Len(hit_list)
    /\ LET hit == hit_at(hit_list, rank_i)
           hit_field == hit % 10
       IN  /\ examined' = [examined EXCEPT ![rank_i] = @ + 1]
           /\ IF hit_field \in {0, 2, 3, 5} /\ ~added[hit_field]
              THEN /\ this_score' = this_score + field_bonus(hit_field)
                   /\ added' = [added EXCEPT ![hit_field] = TRUE]
              ELSE UNCHANGED <<this_score, added>>
           /\ IF hit_field = 1
              THEN IF rank_step = 1
                   THEN /\ rank_i' = Len(hit_list) - 1
                        /\ rank_step' = -1
                        /\ rank_pc' = "loop"
                   ELSE \* break
                        /\ rank_pc' = "score"
                        /\ UNCHANGED <<rank_i, rank_step>>
              ELSE /\ rank_i' = rank_i + rank_step
                   /\ UNCHANGED <<rank_step, rank_pc>>
    /\ UNCHANGED <<hit_list, top_docs, relevant>>

\* line 51: the loop condition fails
RankLoopExit ==
    /\ rank_pc = "loop"
    /\ ~(rank_i >= 0 /\ rank_i < Len(hit_list))
    /\ rank_pc' = "score"
    /\ UNCHANGED <<hit_list, rank_i, rank_step, added, this_score, examined,
                   top_docs, relevant>>

\* lines 86-91: the multiplier (1) is applied, the document appended, the
\* list sorted and returned
RankReturn ==
    /\ rank_pc = "score"
    /\ top_docs' = <<[score |-> this_score * 1, doc_id |-> 0]>>
    /\ rank_pc' = "done"
    /\ UNCHANGED <<hit_list, rank_i, rank_step, added, this_score, examined,
                   relevant>>

\* a call is_relevant(hit_list)
IsRelevant ==
    /\ rank_pc # "idle"
    /\ relevant = None
    /\ relevant' = Some(is_relevant(hit_list))
    /\ UNCHANGED <<hit_list, rank_pc, rank_i, rank_step, added, this_score,
                   examined, top_docs>>

(***************************************************************************)
(* The specifications: one per subsystem.                                  *)
(***************************************************************************)
vars == <<invVars, lexVars, fwdLocal, barVars, postLocal, dirVars, iterVars,
         tokVars, rankVars>>

\* build_inverted_index on an arbitrary well-formed forward index
InitInv == InvInit /\ LexInit /\ FwdIdle /\ BarIdle /\ PostIdle /\ barrel_files = <<>>
    /\ DirsExist
    /\ IterIdle /\ TokIdle /\ RankIdle

NextInv ==
    \/ InvOpen /\ UNCHANGED <<lexVars, fwdLocal, barVars, postLocal, input_dir,
                           iterVars, tokVars, rankVars>>
    \/ Pass1Doc /\ UNCHANGED <<lexVars, fwdLocal, barVars, postLocal, dirVars,
                           iterVars, tokVars, rankVars>>
    \/ Pass1Done /\ UNCHANGED <<lexVars, fwdLocal, barVars, postLocal, dirVars,
                           iterVars, tokVars, rankVars>>
    \/ Pass2Bucket /\ UNCHANGED <<lexVars, fwdLocal, barVars, postLocal, dirVars,
                           iterVars, tokVars, rankVars>>
    \/ MergeOpen /\ UNCHANGED <<lexVars, fwdLocal, barVars, postLocal, dirVars,
                           iterVars, tokVars, rankVars>>
    \/ MergeStep /\ UNCHANGED <<lexVars, fwdLocal, barVars, postLocal, dirVars,
                           iterVars, tokVars, rankVars>>
    \/ MergeDone /\ UNCHANGED <<lexVars, fwdLocal, barVars, postLocal, dirVars,
                           iterVars, tokVars, rankVars>>
    \/ InvFinish /\ UNCHANGED <<lexVars, fwdLocal, barVars, postLocal, dirVars,
                           iterVars, tokVars, rankVars>>

SpecInv == InitInv /\ [][NextInv]_vars

\* build_inverted_index on a forward index that may end early, over the
\* inverted index of an earlier build
InitInvTrunc ==
    InvTruncInit /\ LexInit /\ FwdIdle /\ BarIdle /\ PostIdle /\ barrel_files = <<>>
    /\ DirsExist
    /\ IterIdle /\ TokIdle /\ RankIdle

NextInvTrunc ==
    \/ InvOpen /\ UNCHANGED <<lexVars, fwdLocal, barVars, postLocal, input_dir,
                           iterVars, tokVars, rankVars>>
    \/ Pass1Doc /\ UNCHANGED <<lexVars, fwdLocal, barVars, postLocal, dirVars,
                           iterVars, tokVars, rankVars>>
    \/ Pass1Truncated /\ UNCHANGED <<lexVars, fwdLocal, barVars, postLocal, dirVars,
                           iterVars, tokVars, rankVars>>
    \/ Pass1Done /\ UNCHANGED <<lexVars, fwdLocal, barVars, postLocal, dirVars,
                           iterVars, tokVars, rankVars>>
    \/ Pass2Bucket /\ UNCHANGED <<lexVars, fwdLocal, barVars, postLocal, dirVars,
                           iterVars, tokVars, rankVars>>
    \/ MergeOpen /\ UNCHANGED <<lexVars, fwdLocal, barVars, postLocal, dirVars,
                           iterVars, tokVars, rankVars>>
    \/ MergeStep /\ UNCHANGED <<lexVars, fwdLocal, barVars, postLocal, dirVars,
                           iterVars, tokVars, rankVars>>
    \/ MergeDone /\ UNCHANGED <<lexVars, fwdLocal, barVars, postLocal, dirVars,
                           iterVars, tokVars, rankVars>>
    \/ InvFinish /\ UNCHANGED <<lexVars, fwdLocal, barVars, postLocal, dirVars,
                           iterVars, tokVars, rankVars>>

SpecInvTrunc == InitInvTrunc /\ [][NextInvTrunc]_vars

\* build_inverted_index run over the output of an earlier build and the
\* scratch directory of an aborted one, with failures while a pass runs
InitInvRerun ==
    InvRerunInit /\ LexInit /\ FwdIdle /\ BarIdle /\ PostIdle /\ barrel_files = <<>>
    /\ DirsExist
    /\ IterIdle /\ TokIdle /\ RankIdle

NextInvRerun ==
    \/ InvOpen /\ UNCHANGED <<lexVars, fwdLocal, barVars, postLocal, input_dir,
                           iterVars, tokVars, rankVars>>
    \/ Pass1Doc /\ UNCHANGED <<lexVars, fwdLocal, barVars, postLocal, dirVars,
                           iterVars, tokVars, rankVars>>
    \/ InvAbort /\ UNCHANGED <<lexVars, fwdLocal, barVars, postLocal, dirVars,
                           iterVars, tokVars, rankVars>>
    \/ Pass1Done /\ UNCHANGED <<lexVars, fwdLocal, barVars, postLocal, dirVars,
                           iterVars, tokVars, rankVars>>
    \/ Pass2Bucket /\ UNCHANGED <<lexVars, fwdLocal, barVars, postLocal, dirVars,
                           iterVars, tokVars, rankVars>>
    \/ MergeOpen /\ UNCHANGED <<lexVars, fwdLocal, barVars, postLocal, dirVars,
                           iterVars, tokVars, rankVars>>
    \/ MergeStep /\ UNCHANGED <<lexVars, fwdLocal, barVars, postLocal, dirVars,
                           iterVars, tokVars, rankVars>>
    \/ MergeDone /\ UNCHANGED <<lexVars, fwdLocal, barVars, postLocal, dirVars,
                           iterVars, tokVars, rankVars>>
    \/ InvFinish /\ UNCHANGED <<lexVars, fwdLocal, barVars, postLocal, dirVars,
                           iterVars, tokVars, rankVars>>

SpecInvRerun == InitInvRerun /\ [][NextInvRerun]_vars

\* one of build_forward_index, build_inverted_index, build_barrels called
\* with a fresh output location, on an input that may not exist
InitStart ==
    /\ \/ FwdStartInit /\ LexInit /\ InvIdle /\ BarIdle /\ PostIdle /\ barrel_files = <<>>
       \/ InvStartInit /\ LexInit /\ FwdIdle /\ BarIdle /\ PostIdle /\ barrel_files = <<>>
       \/ BarStartInit /\ LexInit /\ FwdIdle /\ InvIdle /\ PostIdle
    /\ IterIdle /\ TokIdle /\ RankIdle

NextStart ==
    \/ FwdStart /\ UNCHANGED <<invLocal, barVars, postLocal, dirVars,
                           iterVars, tokVars, rankVars>>
    \/ FwdDoc /\ UNCHANGED <<invLocal, barVars, postLocal, dirVars,
                           iterVars, tokVars, rankVars>>
    \/ FwdLoopEnd /\ UNCHANGED <<invLocal, barVars, postLocal, dirVars,
                           iterVars, tokVars, rankVars>>
    \/ FwdWrite /\ UNCHANGED <<invLocal, barVars, postLocal, input_dir,
                           iterVars, tokVars, rankVars>>
    \/ InvOpen /\ UNCHANGED <<lexVars, fwdLocal, barVars, postLocal, input_dir,
                           iterVars, tokVars, rankVars>>
    \/ Pass1Doc /\ UNCHANGED <<lexVars, fwdLocal, barVars, postLocal, dirVars,
                           iterVars, tokVars, rankVars>>
    \/ Pass1Done /\ UNCHANGED <<lexVars, fwdLocal, barVars, postLocal, dirVars,
                           iterVars, tokVars, rankVars>>
    \/ Pass2Bucket /\ UNCHANGED <<lexVars, fwdLocal, barVars, postLocal, dirVars,
                           iterVars, tokVars, rankVars>>
    \/ MergeOpen /\ UNCHANGED <<lexVars, fwdLocal, barVars, postLocal, dirVars,
                           iterVars, tokVars, rankVars>>
    \/ MergeStep /\ UNCHANGED <<lexVars, fwdLocal, barVars, postLocal, dirVars,
                           iterVars, tokVars, rankVars>>
    \/ MergeDone /\ UNCHANGED <<lexVars, fwdLocal, barVars, postLocal, dirVars,
                           iterVars, tokVars, rankVars>>
    \/ InvFinish /\ UNCHANGED <<lexVars, fwdLocal, barVars, postLocal, dirVars,
                           iterVars, tokVars, rankVars>>
    \/ BarStart /\ UNCHANGED <<invLocal, lexVars, fwdLocal, postLocal, dirVars,
                           iterVars, tokVars, rankVars>>
    \/ BarPass1Doc /\ UNCHANGED <<invLocal, lexVars, fwdLocal, postLocal, dirVars,
                           iterVars, tokVars, rankVars>>
    \/ BarAssign /\ UNCHANGED <<invLocal, lexVars, fwdLocal, postLocal, input_dir,
                           iterVars, tokVars, rankVars>>
    \/ BarPass2Doc /\ UNCHANGED <<invLocal, lexVars, fwdLocal, postLocal, dirVars,
                           iterVars, tokVars, rankVars>>
    \/ BarClose /\ UNCHANGED <<invLocal, lexVars, fwdLocal, postLocal, dirVars,
                           iterVars, tokVars, rankVars>>

SpecStart == InitStart /\ [][NextStart]_vars

\* iter_source_files on arbitrary pmc_json and pdf_json folders
InitIter ==
    /\ IterInit /\ InvIdle /\ LexInit /\ FwdIdle /\ BarIdle /\ PostIdle /\ TokIdle /\ RankIdle
    /\ forward_index = NoFile /\ barrel_files = <<>>
    /\ DirsExist

NextIter ==
    \/ IterOpenFolder /\ UNCHANGED <<invVars, lexVars, fwdLocal, barVars, postLocal,
                                     dirVars, tokVars, rankVars>>
    \/ IterFile /\ UNCHANGED <<invVars, lexVars, fwdLocal, barVars, postLocal,
                               dirVars, tokVars, rankVars>>
    \/ IterFolderEnd /\ UNCHANGED <<invVars, lexVars, fwdLocal, barVars, postLocal,
                                    dirVars, tokVars, rankVars>>

SpecIter == InitIter /\ [][NextIter]_vars

\* the two tokenizers on an arbitrary text and stopword set
InitTok ==
    /\ TokInit /\ InvIdle /\ LexInit /\ FwdIdle /\ BarIdle /\ PostIdle /\ IterIdle /\ RankIdle
    /\ forward_index = NoFile /\ barrel_files = <<>>
    /\ DirsExist

NextTok ==
    \/ LexiconTokenize /\ UNCHANGED <<invVars, lexVars, fwdLocal, barVars, postLocal,
                                      dirVars, iterVars, rankVars>>
    \/ IndexingTokenize /\ UNCHANGED <<invVars, lexVars, fwdLocal, barVars, postLocal,
                                       dirVars, iterVars, rankVars>>

SpecTok == InitTok /\ [][NextTok]_vars

\* rank_docs and is_relevant on an arbitrary hit list
InitRank ==
    /\ RankInit /\ InvIdle /\ LexInit /\ FwdIdle /\ BarIdle /\ PostIdle
    /\ IterIdle /\ TokIdle
    /\ forward_index = NoFile /\ barrel_files = <<>>
    /\ DirsExist

NextRank ==
    \/ RankBegin /\ UNCHANGED <<invVars, lexVars, fwdLocal, barVars, postLocal,
                                dirVars, iterVars, tokVars>>
    \/ RankStep /\ UNCHANGED <<invVars, lexVars, fwdLocal, barVars, postLocal,
                               dirVars, iterVars, tokVars>>
    \/ RankLoopExit /\ UNCHANGED <<invVars, lexVars, fwdLocal, barVars, postLocal,
                                   dirVars, iterVars, tokVars>>
    \/ RankReturn /\ UNCHANGED <<invVars, lexVars, fwdLocal, barVars, postLocal,
                                 dirVars, iterVars, tokVars>>
    \/ IsRelevant /\ UNCHANGED <<invVars, lexVars, fwdLocal, barVars, postLocal,
                                 dirVars, iterVars, tokVars>>

SpecRank == InitRank /\ [][NextRank]_vars

\* a driver calling Lexicon.get_id
InitLex ==
    /\ LexInit /\ InvIdle /\ FwdIdle /\ BarIdle /\ PostIdle
    /\ forward_index = NoFile /\ barrel_files = <<>>
    /\ DirsExist
    /\ IterIdle /\ TokIdle /\ RankIdle

NextLex == LexGetId /\ UNCHANGED <<invVars, fwdLocal, barVars, postLocal, dirVars,
                           iterVars, tokVars, rankVars>>

SpecLex == InitLex /\ [][NextLex]_vars

\* build_forward_index on an arbitrary corpus
InitFwd == FwdInit /\ LexInit /\ InvIdle /\ BarIdle /\ PostIdle /\ barrel_files = <<>>
    /\ DirsExist
    /\ IterIdle /\ TokIdle /\ RankIdle

NextFwd ==
    \/ FwdDoc /\ UNCHANGED <<invLocal, barVars, postLocal, dirVars,
                           iterVars, tokVars, rankVars>>
    \/ FwdLoopEnd /\ UNCHANGED <<invLocal, barVars, postLocal, dirVars,
                           iterVars, tokVars, rankVars>>
    \/ FwdWrite /\ UNCHANGED <<invLocal, barVars, postLocal, input_dir,
                           iterVars, tokVars, rankVars>>

SpecFwd == InitFwd /\ [][NextFwd]_vars

\* BarrelAssigner.analyze and save on an arbitrary dict of document frequencies
InitAssign ==
    /\ AssignerInit /\ InvIdle /\ LexInit /\ FwdIdle /\ PostIdle
    /\ forward_index = NoFile
    /\ DirsExist
    /\ IterIdle /\ TokIdle /\ RankIdle

NextAssign ==
    \/ AssignerAnalyze /\ UNCHANGED <<invVars, lexVars, fwdLocal, barrel_files, postLocal, dirVars,
                           iterVars, tokVars, rankVars>>
    \/ AssignerSave /\ UNCHANGED <<invVars, lexVars, fwdLocal, barrel_files, postLocal, input_dir,
                           iterVars, tokVars, rankVars>>

SpecAssign == InitAssign /\ [][NextAssign]_vars

\* build_barrels on an arbitrary well-formed forward index
InitBarrels == BarInit /\ InvIdle /\ LexInit /\ FwdIdle /\ PostIdle
    /\ DirsExist
    /\ IterIdle /\ TokIdle /\ RankIdle

NextBarrels ==
    \/ BarPass1Doc /\ UNCHANGED <<invLocal, lexVars, fwdLocal, postLocal, dirVars,
                           iterVars, tokVars, rankVars>>
    \/ BarAssign /\ UNCHANGED <<invLocal, lexVars, fwdLocal, postLocal, input_dir,
                           iterVars, tokVars, rankVars>>
    \/ BarPass2Doc /\ UNCHANGED <<invLocal, lexVars, fwdLocal, postLocal, dirVars,
                           iterVars, tokVars, rankVars>>
    \/ BarClose /\ UNCHANGED <<invLocal, lexVars, fwdLocal, postLocal, dirVars,
                           iterVars, tokVars, rankVars>>

SpecBarrels == InitBarrels /\ [][NextBarrels]_vars

\* build_postings_index.main on an arbitrary barrels directory, the scratch
\* directory empty
InitPost ==
    /\ PostInit /\ InvIdle /\ LexInit /\ FwdIdle /\ BarIdle
    /\ forward_index = NoFile
    /\ DirsExist
    /\ IterIdle /\ TokIdle /\ RankIdle

NextPost ==
    \/ PostScanRecord /\ UNCHANGED <<invVars, lexVars, fwdLocal, barLocal, dirVars,
                           iterVars, tokVars, rankVars>>
    \/ PostScanEnd /\ UNCHANGED <<invVars, lexVars, fwdLocal, barLocal, dirVars,
                           iterVars, tokVars, rankVars>>
    \/ PostWriteToken /\ UNCHANGED <<invVars, lexVars, fwdLocal, barLocal, dirVars,
                           iterVars, tokVars, rankVars>>
    \/ PostWriteOffsets /\ UNCHANGED <<invVars, lexVars, fwdLocal, barLocal, dirVars,
                           iterVars, tokVars, rankVars>>
    \/ PostReplaceIndex /\ UNCHANGED <<invVars, lexVars, fwdLocal, barLocal, dirVars,
                           iterVars, tokVars, rankVars>>
    \/ PostReplaceOffsets /\ UNCHANGED <<invVars, lexVars, fwdLocal, barLocal, dirVars,
                           iterVars, tokVars, rankVars>>
    \/ PostCleanup /\ UNCHANGED <<invVars, lexVars, fwdLocal, barLocal, dirVars,
                           iterVars, tokVars, rankVars>>

SpecPost == InitPost /\ [][NextPost]_vars

\* the consolidator on a barrel file that ends inside a record, over an
\* earlier build
InitPostTrunc ==
    /\ PostTruncInit /\ InvIdle /\ LexInit /\ FwdIdle /\ BarIdle
    /\ forward_index = NoFile
    /\ DirsExist
    /\ IterIdle /\ TokIdle /\ RankIdle

NextPostTrunc ==
    \/ PostScanRecord /\ UNCHANGED <<invVars, lexVars, fwdLocal, barLocal, dirVars,
                           iterVars, tokVars, rankVars>>
    \/ PostScanEnd /\ UNCHANGED <<invVars, lexVars, fwdLocal, barLocal, dirVars,
                           iterVars, tokVars, rankVars>>
    \/ PostWriteToken /\ UNCHANGED <<invVars, lexVars, fwdLocal, barLocal, dirVars,
                           iterVars, tokVars, rankVars>>
    \/ PostWriteOffsets /\ UNCHANGED <<invVars, lexVars, fwdLocal, barLocal, dirVars,
                           iterVars, tokVars, rankVars>>
    \/ PostReplaceIndex /\ UNCHANGED <<invVars, lexVars, fwdLocal, barLocal, dirVars,
                           iterVars, tokVars, rankVars>>
    \/ PostReplaceOffsets /\ UNCHANGED <<invVars, lexVars, fwdLocal, barLocal, dirVars,
                           iterVars, tokVars, rankVars>>
    \/ PostCleanup /\ UNCHANGED <<invVars, lexVars, fwdLocal, barLocal, dirVars,
                           iterVars, tokVars, rankVars>>

SpecPostTrunc == InitPostTrunc /\ [][NextPostTrunc]_vars

\* build_barrels on a forward index of build_forward_index, then
\* build_postings_index.main on the barrels it wrote
InitPipeline == BarBuiltInit /\ PostIdle /\ InvIdle /\ LexInit /\ FwdIdle
    /\ DirsExist
    /\ IterIdle /\ TokIdle /\ RankIdle

NextPipeline ==
    \/ BarPass1Doc /\ UNCHANGED <<invLocal, lexVars, fwdLocal, postLocal, dirVars,
                           iterVars, tokVars, rankVars>>
    \/ BarAssign /\ UNCHANGED <<invLocal, lexVars, fwdLocal, postLocal, input_dir,
                           iterVars, tokVars, rankVars>>
    \/ BarPass2Doc /\ UNCHANGED <<invLocal, lexVars, fwdLocal, postLocal, dirVars,
                           iterVars, tokVars, rankVars>>
    \/ BarClose /\ UNCHANGED <<invLocal, lexVars, fwdLocal, postLocal, dirVars,
                           iterVars, tokVars, rankVars>>
    \/ PostStart /\ UNCHANGED <<invVars, lexVars, fwdLocal, barLocal, dirVars,
                           iterVars, tokVars, rankVars>>
    \/ PostScanRecord /\ UNCHANGED <<invVars, lexVars, fwdLocal, barLocal, dirVars,
                           iterVars, tokVars, rankVars>>
    \/ PostScanEnd /\ UNCHANGED <<invVars, lexVars, fwdLocal, barLocal, dirVars,
                           iterVars, tokVars, rankVars>>
    \/ PostWriteToken /\ UNCHANGED <<invVars, lexVars, fwdLocal, barLocal, dirVars,
                           iterVars, tokVars, rankVars>>
    \/ PostWriteOffsets /\ UNCHANGED <<invVars, lexVars, fwdLocal, barLocal, dirVars,
                           iterVars, tokVars, rankVars>>
    \/ PostReplaceIndex /\ UNCHANGED <<invVars, lexVars, fwdLocal, barLocal, dirVars,
                           iterVars, tokVars, rankVars>>
    \/ PostReplaceOffsets /\ UNCHANGED <<invVars, lexVars, fwdLocal, barLocal, dirVars,
                           iterVars, tokVars, rankVars>>
    \/ PostCleanup /\ UNCHANGED <<invVars, lexVars, fwdLocal, barLocal, dirVars,
                           iterVars, tokVars, rankVars>>

SpecPipeline == InitPipeline /\ [][NextPipeline]_vars

\* build_postings_index.main run, killed and run again, over an earlier build
InitPostCrash ==
    /\ PostCrashInit /\ InvIdle /\ LexInit /\ FwdIdle /\ BarIdle
    /\ forward_index = NoFile
    /\ DirsExist
    /\ IterIdle /\ TokIdle /\ RankIdle

NextPostCrash ==
    \/ PostScanRecord /\ UNCHANGED <<invVars, lexVars, fwdLocal, barLocal, dirVars,
                           iterVars, tokVars, rankVars>>
    \/ PostScanEnd /\ UNCHANGED <<invVars, lexVars, fwdLocal, barLocal, dirVars,
                           iterVars, tokVars, rankVars>>
    \/ PostWriteToken /\ UNCHANGED <<invVars, lexVars, fwdLocal, barLocal, dirVars,
                           iterVars, tokVars, rankVars>>
    \/ PostWriteOffsets /\ UNCHANGED <<invVars, lexVars, fwdLocal, barLocal, dirVars,
                           iterVars, tokVars, rankVars>>
    \/ PostReplaceIndex /\ UNCHANGED <<invVars, lexVars, fwdLocal, barLocal, dirVars,
                           iterVars, tokVars, rankVars>>
    \/ PostReplaceOffsets /\ UNCHANGED <<invVars, lexVars, fwdLocal, barLocal, dirVars,
                           iterVars, tokVars, rankVars>>
    \/ PostCleanup /\ UNCHANGED <<invVars, lexVars, fwdLocal, barLocal, dirVars,
                           iterVars, tokVars, rankVars>>
    \/ PostAbort /\ UNCHANGED <<invVars, lexVars, fwdLocal, barLocal, dirVars,
                           iterVars, tokVars, rankVars>>
    \/ PostRestart /\ UNCHANGED <<invVars, lexVars, fwdLocal, barLocal, dirVars,
                           iterVars, tokVars, rankVars>>

SpecPostCrash == InitPostCrash /\ [][NextPostCrash]_vars

(***************************************************************************)
(* The forward-index writer and the lexicon: claims C4-C6.                 *)
(***************************************************************************)
Accepted(file) == ~file.raises /\ file.tokens # <<>>

\* how many of the first n files of the enumeration were accepted
AcceptedCount(n) == Cardinality({i \in 1..n : Accepted(corpus[i])})

AcceptedFiles == SelectSeq(corpus, Accepted)

(***************************************************************************)
(* C4: whatever the source files do (accepted, zero tokens, raising), the  *)
(* k-th record appended to the forward index has doc_id = k (from 0);      *)
(* skipped documents do not consume a doc_id; the doc_ids written are      *)
(* exactly 0 .. doc_count-1, doc_count being the header value.             *)
(***************************************************************************)
C4_DocIdsDenseInOrder ==
    /\ fwd_pc \in {"loop", "validate", "failed", "done"} =>
         /\ \A k \in DOMAIN forward_records : forward_records[k].doc_id = k - 1
         /\ doc_count = Len(forward_records)
         /\ doc_count = AcceptedCount(file_idx)
         /\ docs_skipped = file_idx - doc_count
    /\ fwd_pc = "done" =>
         /\ \A k \in DOMAIN forward_index.data.records :
                forward_index.data.records[k].doc_id = k - 1
         /\ Len(forward_index.data.records) = forward_index.data.doc_count
         /\ {forward_index.data.records[k].doc_id :
                k \in DOMAIN forward_index.data.records}
            = 0..(forward_index.data.doc_count - 1)

\* a finished build over accepted, raising, accepted: the raising file in
\* the middle consumed no doc_id
C4_Witness ==
    /\ fwd_pc = "done"
    /\ Len(corpus) = 3
    /\ corpus[2].raises
    /\ docs_skipped = 1
    /\ forward_index.data.doc_count = 2
    /\ forward_index.data.records[2].doc_id = 1

(***************************************************************************)
(* C5: after build_forward_index succeeds every token_id of every forward  *)
(* record is below the vocab_size of lexicon.bin and has exactly one       *)
(* lexicon entry, whose trailing token_id field equals its record index    *)
(* and whose token is the token the document holds at that position.       *)
(***************************************************************************)
C5_TokenIdsInLexicon ==
    fwd_pc = "done" =>
        /\ lexicon_bin.data.vocab_size = Len(lexicon_bin.data.entries)
        /\ \A k \in DOMAIN forward_index.data.records :
            \A pos \in DOMAIN forward_index.data.records[k].token_ids :
                LET token_id == forward_index.data.records[k].token_ids[pos]
                    entries == lexicon_bin.data.entries
                IN  /\ token_id >= 0
                    /\ token_id < lexicon_bin.data.vocab_size
                    /\ Cardinality({e \in DOMAIN entries :
                                        entries[e].token_id = token_id}) = 1
                    /\ entries[token_id + 1].token_id = token_id
                    /\ entries[token_id + 1].token = AcceptedFiles[k].tokens[pos]

\* a finished build of two documents over a two-token vocabulary, one
\* document repeating a token
C5_Witness ==
    /\ fwd_pc = "done"
    /\ lexicon_bin.data.vocab_size = 2
    /\ Len(forward_index.data.records) = 2
    /\ \E k \in DOMAIN forward_index.data.records :
         LET t == forward_index.data.records[k].token_ids
         IN  Len(t) = 2 /\ t[1] = t[2]

(***************************************************************************)
(* C6: after any sequence of get_id calls the ids are dense and in         *)
(* first-occurrence order: id2word has no duplicates, word2id[id2word[i]]  *)
(* = i, the keys of word2id are the tokens of id2word; an assigned id      *)
(* never changes; a call with create_if_missing false on an unseen token   *)
(* returns -1 and changes nothing.                                         *)
(***************************************************************************)
LexiconDense ==
    /\ \A i, j \in DOMAIN id2word : id2word[i] = id2word[j] => i = j
    /\ \A i \in DOMAIN id2word : word2id[id2word[i]] = i - 1
    /\ DOMAIN word2id = SeqToSet(id2word)

LexiconStep ==
    /\ \A t \in DOMAIN word2id :
         t \in DOMAIN word2id' /\ word2id'[t] = word2id[t]
    /\ Len(id2word) <= Len(id2word')
    /\ SubSeq(id2word', 1, Len(id2word)) = id2word
    /\ lex_calls' # lex_calls =>
         LET call == lex_last'.data
         IN  IF call.token \in DOMAIN word2id
             THEN /\ call.ret = word2id[call.token]
                  /\ word2id' = word2id
                  /\ id2word' = id2word
             ELSE IF call.create
                  THEN /\ call.ret = Len(id2word)
                       /\ id2word' = Append(id2word, call.token)
                  ELSE /\ call.ret = -1
                       /\ word2id' = word2id
                       /\ id2word' = id2word

C6_LexiconIdsDenseStable == [](LexiconDense) /\ [][LexiconStep]_vars

\* two tokens hold ids 0 and 1, and a lookup of a third, unseen token with
\* create_if_missing false has just returned -1
C6_Witness ==
    /\ Len(id2word) = 2
    /\ lex_last.exists
    /\ ~lex_last.data.create
    /\ lex_last.data.token \notin DOMAIN word2id
    /\ lex_last.data.ret = -1

(***************************************************************************)
(* The barrel assigner and writer: claims C7-C9.                           *)
(***************************************************************************)
BarrelMappings == barrel_mapping.data.mappings

\* the barrel files that hold at least one record of the token
BarrelsHolding(token_id) ==
    {b \in DOMAIN barrel_files :
        \E i \in DOMAIN barrel_files[b] : barrel_files[b][i].token_id = token_id}

\* C7: once build_barrels has analysed the forward index (N >= 1), every
\* token of the forward index is mapped, so the modulo fallback is not taken;
\* barrel_mapping.bin has exactly one entry for it, with a barrel in 0..N;
\* no other barrel file holds a record of the token, and when build_barrels
\* has finished that one file does hold the records of the token.
C7_TokenInItsMappedBarrel ==
    bar_pc \in {"pass2", "done"} =>
        /\ barrel_mapping.exists
        /\ barrel_mapping.data.num_barrels = num_barrels
        /\ barrel_mapping.data.special_freq_barrel_id = num_barrels
        /\ DOMAIN barrel_files = 0..num_barrels
        /\ \A token_id \in ForwardTokens :
            /\ get_barrel(token_to_barrel, token_id) # -1
            /\ Cardinality({i \in DOMAIN BarrelMappings :
                              BarrelMappings[i].token_id = token_id}) = 1
            /\ \A i \in DOMAIN BarrelMappings :
                  BarrelMappings[i].token_id = token_id =>
                      /\ BarrelMappings[i].barrel_id \in 0..num_barrels
                      /\ BarrelsHolding(token_id) \subseteq {BarrelMappings[i].barrel_id}
                      /\ bar_pc = "done" =>
                            BarrelsHolding(token_id) = {BarrelMappings[i].barrel_id}

\* build_barrels has finished with two regular barrels and every barrel
\* file, barrel_freq.bin included, holds records
C7_Witness ==
    /\ bar_pc = "done"
    /\ num_barrels = 2
    /\ \A b \in DOMAIN barrel_files : barrel_files[b] # <<>>

\* every (file, index) slot of the barrel files
BarrelSlots == UNION {{b} \X DOMAIN barrel_files[b] : b \in DOMAIN barrel_files}

\* the record the forward record k calls for, for a token it contains
ExpectedRecord(k, token_id) ==
    LET record == forward_index.data.records[k]
        indices == {i \in 0..(Len(record.token_ids) - 1) :
                        record.token_ids[i + 1] = token_id}
    IN  [token_id |-> token_id,
         doc_id |-> record.doc_id,
         freq |-> Cardinality(indices),
         positions_count |-> Cardinality(indices),
         positions |-> sorted(indices)]

ExpectedRecords ==
    {ExpectedRecord(k, token_id) :
        <<k, token_id>> \in {<<j, t>> \in (1..docs_written) \X TokenIds :
            t \in SeqToSet(forward_index.data.records[j].token_ids)}}

WrittenRecords == {barrel_files[slot[1]][slot[2]] : slot \in BarrelSlots}

TimesWritten(e) ==
    Cardinality({slot \in BarrelSlots : barrel_files[slot[1]][slot[2]] = e})

TimesExpected(e) ==
    Cardinality({k \in 1..docs_written :
        /\ e.token_id \in SeqToSet(forward_index.data.records[k].token_ids)
        /\ ExpectedRecord(k, e.token_id) = e})

\* the sum of freq over the records of the token in all barrel files
RECURSIVE FreqSum(_, _)
FreqSum(records, token_id) ==
    IF records = <<>> THEN 0
    ELSE (IF Head(records).token_id = token_id THEN Head(records).freq ELSE 0)
         + FreqSum(Tail(records), token_id)

Occurrences(token_id) ==
    Cardinality({<<k, i>> \in UNION {{j} \X DOMAIN forward_index.data.records[j].token_ids :
                                        j \in DOMAIN forward_index.data.records} :
                    forward_index.data.records[k].token_ids[i] = token_id})

\* C8: for the forward records Pass 2 has processed, the barrel files hold
\* exactly one record per (forward record, distinct token of it), with freq =
\* positions_count = the number of positions and positions the ascending
\* list of the 0-based indices of the token in the record; when build_barrels
\* has finished, the freq of a token's records add up to its occurrences in
\* the forward index.
C8_OnePositionalRecordPerDocToken ==
    bar_pc \in {"pass2", "done"} =>
        /\ \A e \in WrittenRecords \cup ExpectedRecords :
              TimesWritten(e) = TimesExpected(e)
        /\ \A e \in WrittenRecords :
              /\ e.freq = Len(e.positions)
              /\ e.positions_count = Len(e.positions)
              /\ StrictlyAscending(e.positions)
        /\ bar_pc = "done" =>
              \A token_id \in ForwardTokens :
                  FreqSum(stream_barrel_records(barrel_files), token_id)
                      = Occurrences(token_id)

\* build_barrels has finished; one record has a token twice in its document,
\* another has a token at index 1 only
C8_Witness ==
    /\ bar_pc = "done"
    /\ \E e \in WrittenRecords : e.freq = 2 /\ e.positions = <<0, 1>>
    /\ \E e \in WrittenRecords : e.positions = <<1>>

BarrelPostings(token_id) ==
    LET OfToken(r) == r.token_id = token_id
        found == SelectSeq(stream_barrel_records(barrel_files), OfToken)
    IN  [i \in DOMAIN found |->
            [doc_id |-> found[i].doc_id, freq |-> found[i].freq,
             positions_count |-> Len(found[i].positions),
             positions |-> found[i].positions]]

BarrelTokens ==
    {stream_barrel_records(barrel_files)[i].token_id :
        i \in DOMAIN stream_barrel_records(barrel_files)}

\* from the end of the scan to the cleanup, the spill file of a token followed
\* by its in-memory list is the token's barrel records in scan order; once
\* postings_index.bin is in place it holds, for the tokens in ascending
\* order, the count n and exactly those n records
ConsolidatedBlocks ==
    /\ post_pc \in {"write", "replace_index", "replace_offsets", "cleanup"} =>
          \A token_id \in BarrelTokens :
              /\ dict_get(spill_files, token_id, <<>>)
                    \o serialize_postings(dict_get(token_inmem, token_id, <<>>))
                 = BarrelPostings(token_id)
              /\ dict_get(token_disk_counts, token_id, 0)
                 = Len(dict_get(spill_files, token_id, <<>>))
    /\ post_pc \in {"replace_offsets", "cleanup", "done"} =>
          /\ postings_index.exists
          /\ postings_index.data =
                [k \in 1..Cardinality(BarrelTokens) |->
                    [count |-> Len(BarrelPostings(sorted(BarrelTokens)[k])),
                     records |-> BarrelPostings(sorted(BarrelTokens)[k])]]

\* a token with T + 1 barrel records has T spilled records, written by one
\* spill, and one in-memory record
OneSpillOneTail(token_id) ==
    /\ dict_get(token_disk_counts, token_id, 0) = PER_TOKEN_INMEM_THRESHOLD
    /\ Len(dict_get(spill_files, token_id, <<>>)) = PER_TOKEN_INMEM_THRESHOLD
    /\ Len(dict_get(token_inmem, token_id, <<>>)) = 1

\* C10 as stated: the blocks are complete and in scan order, and for every
\* threshold T >= 1 a token with T + 1 records has one spill of T records and
\* one in-memory tail record.
C10_OneSpillOneTailAnyThreshold ==
    /\ ConsolidatedBlocks
    /\ post_pc \in {"write", "replace_index", "replace_offsets", "cleanup"} =>
          \A token_id \in BarrelTokens :
              Len(BarrelPostings(token_id)) = PER_TOKEN_INMEM_THRESHOLD + 1 =>
                  OneSpillOneTail(token_id)

\* C10, amended: starting from an empty scratch directory the block of every
\* token with n >= 1 barrel records is the count n followed by exactly those
\* records in scan order, the spilled ones first, for any threshold T >= 1;
\* a token with n = T + 1 records has one spill of T records and one
\* in-memory tail record when T >= 2, and when T = 1 both its records are
\* spilled, one at a time, and no in-memory record is left.
C10_ConsolidatedBlockInScanOrder ==
    /\ ConsolidatedBlocks
    /\ post_pc \in {"write", "replace_index", "replace_offsets", "cleanup"} =>
          \A token_id \in BarrelTokens :
              Len(BarrelPostings(token_id)) = PER_TOKEN_INMEM_THRESHOLD + 1 =>
                  IF PER_TOKEN_INMEM_THRESHOLD >= 2
                  THEN OneSpillOneTail(token_id)
                  ELSE /\ dict_get(token_disk_counts, token_id, 0) = 2
                       /\ Len(dict_get(spill_files, token_id, <<>>)) = 2
                       /\ dict_get(token_inmem, token_id, <<>>) = <<>>

\* threshold 2 and a token with three barrel records: after the scan two of
\* them are in the spill file and one is in memory
C10_Witness ==
    /\ post_pc = "write"
    /\ PER_TOKEN_INMEM_THRESHOLD = 2
    /\ \E token_id \in BarrelTokens :
          /\ Len(BarrelPostings(token_id)) = 3
          /\ Len(dict_get(spill_files, token_id, <<>>)) = 2
          /\ Len(dict_get(token_inmem, token_id, <<>>)) = 1

(***************************************************************************)
(* The postings consolidator: claims C11-C14.                              *)
(***************************************************************************)
OffsetEntries == postings_offsets.data.entries

\* C11: once both files of this run are in place, postings_offsets.bin has
\* exactly one entry for every token with a record in some barrel file and no
\* other entry, the entries are in strictly ascending token_id order, and
\* entry_count is the number of distinct tokens scanned.
C11_OneOffsetsEntryPerToken ==
    post_pc \in {"cleanup", "done"} =>
        /\ postings_offsets.exists
        /\ {OffsetEntries[k].token_id : k \in DOMAIN OffsetEntries} = BarrelTokens
        /\ \A k \in 1..(Len(OffsetEntries) - 1) :
              OffsetEntries[k].token_id < OffsetEntries[k + 1].token_id
        /\ postings_offsets.data.count = Len(OffsetEntries)
        /\ postings_offsets.data.count = Cardinality(BarrelTokens)
        /\ postings_offsets.data.count = Cardinality(seen_tokens)

\* a finished run whose barrel files hold both tokens, the greater one first
C11_Witness ==
    /\ post_pc = "done"
    /\ Len(OffsetEntries) = 2
    /\ stream_barrel_records(barrel_files)[1].token_id = 1

\* the slice [offset, offset + length) of postings_index.bin, in u32 words
IndexSlice(entry) ==
    SubSeq(index_words(postings_index.data),
           (entry.offset \div 4) + 1, (entry.offset + entry.length) \div 4)

\* n (doc_id, freq, positions_count, positions) triples fill the words exactly
RECURSIVE TriplesFill(_, _)
TriplesFill(words, n) ==
    IF n = 0 THEN words = <<>>
    ELSE /\ Len(words) >= 3
         /\ Len(words) >= 3 + words[3]
         /\ TriplesFill(SubSeq(words, 4 + words[3], Len(words)), n - 1)

RECURSIVE SumOfLengths(_)
SumOfLengths(entries) ==
    IF entries = <<>> THEN 0 ELSE Head(entries).length + SumOfLengths(Tail(entries))

\* C12: once both files of a run are in place, the offsets entries tile
\* postings_index.bin: the first offset is 0, every other offset is the
\* previous offset plus the previous length, the lengths add up to the file
\* size, and in every slice the leading count is the number of triples that
\* fill the rest of the slice exactly.
C12_OffsetsTileIndex ==
    post_pc \in {"cleanup", "done"} =>
        /\ OffsetEntries # <<>> => OffsetEntries[1].offset = 0
        /\ \A k \in 1..(Len(OffsetEntries) - 1) :
              OffsetEntries[k + 1].offset
                  = OffsetEntries[k].offset + OffsetEntries[k].length
        /\ SumOfLengths(OffsetEntries) = 4 * Len(index_words(postings_index.data))
        /\ \A k \in DOMAIN OffsetEntries :
              LET slice == IndexSlice(OffsetEntries[k])
              IN  /\ slice # <<>>
                  /\ TriplesFill(Tail(slice), Head(slice))

\* C13: when a run has died, the final names do not hold a new
\* postings_index.bin next to the postings_offsets.bin of the earlier build;
\* and up to the second rename every spill file the scan wrote is in place.
C13_FailureKeepsPriorBuild ==
    /\ post_pc = "aborted" =>
          ~(postings_index # PriorIndex /\ postings_offsets = PriorOffsets)
    /\ post_pc \in {"write", "replace_index", "replace_offsets"} =>
          DOMAIN token_disk_counts \subseteq DOMAIN spill_files

\* what one run from an empty scratch directory writes for the barrel files
CleanIndex ==
    File([k \in 1..Cardinality(BarrelTokens) |->
            [count |-> Len(BarrelPostings(sorted(BarrelTokens)[k])),
             records |-> BarrelPostings(sorted(BarrelTokens)[k])]])

CleanOffsets ==
    File([count |-> Cardinality(BarrelTokens),
          entries |-> [k \in 1..Cardinality(BarrelTokens) |->
                [token_id |-> sorted(BarrelTokens)[k],
                 offset |-> tell(SubSeq(CleanIndex.data, 1, k - 1)),
                 length |-> block_size(CleanIndex.data[k])]]])

\* C14: every run that finishes, the first or one started after an earlier
\* run finished or died, leaves the postings_index.bin and
\* postings_offsets.bin of a single run from an empty scratch directory.
C14_RerunGivesSameFiles ==
    post_pc = "done" =>
        /\ postings_index = CleanIndex
        /\ postings_offsets = CleanOffsets

(***************************************************************************)
(* Truncated forward index: claim C15.                                     *)
(***************************************************************************)
\* the header of forward_index.bin declares more documents than the file holds
HeaderExceedsRecords ==
    /\ forward_index.exists
    /\ forward_index.data.doc_count > Len(forward_index.data.records)

AbortsAtShortRead ==
    (/\ HeaderExceedsRecords
     /\ inv_pc = "pass1"
     /\ docs_seen = Len(forward_index.data.records))
        => (inv_pc' = "failed" /\ inverted_index' = inverted_index)

\* C15: when the declared doc_count exceeds the records present (the file
\* stopping at a record boundary, inside a document header or inside token
\* ids), the build never gets past Pass 1, the step taken at the short read
\* is the RuntimeError, and the earlier inverted_index.bin stays as it was
C15_TruncationAbortsKeepsInverted ==
    /\ [](HeaderExceedsRecords =>
            (/\ inv_pc \in {"start", "pass1", "failed"}
             /\ inverted_index = PriorInverted))
    /\ [][AbortsAtShortRead]_vars

C15_Witness ==
    /\ HeaderExceedsRecords
    /\ forward_index.data.cut = "token_ids"
    /\ inv_pc = "failed"
    /\ docs_seen = 1
    /\ tmp_dir
    /\ inverted_index = PriorInverted
(***************************************************************************)
(* Nothing to index: claim C16.                                            *)
(***************************************************************************)
\* no file of the corpus gives a token: it raises or tokenizes to nothing
NoDocumentYieldsTokens == \A i \in DOMAIN corpus : ~Accepted(corpus[i])

NoOutputFiles ==
    /\ forward_index = NoFile
    /\ lexicon_bin = NoFile
    /\ doc_ids_tsv = NoFile

RaisesWhenEmpty ==
    (NoDocumentYieldsTokens /\ fwd_pc = "validate") => fwd_pc' = "failed"

\* C16: on a corpus where no document yields a token (no files, zero-token
\* documents, documents that fail to parse) the build never completes, none
\* of forward_index.bin, lexicon.bin, doc_ids.tsv is ever written, and the
\* step after the loop is the RuntimeError
C16_EmptyBuildRaisesWritesNothing ==
    /\ [](NoDocumentYieldsTokens =>
            (fwd_pc # "done" /\ NoOutputFiles /\ fwd_stats = None))
    /\ [][RaisesWhenEmpty]_vars

C16_Witness ==
    /\ fwd_pc = "failed"
    /\ Len(corpus) = 2
    /\ corpus[1].raises
    /\ ~corpus[2].raises
    /\ docs_skipped = 2
    /\ NoOutputFiles
(***************************************************************************)
(* A document that fails to parse: claim C18.                              *)
(***************************************************************************)
\* the loop is about to take a file whose processing raises
NextFileRaises ==
    /\ fwd_pc = "loop"
    /\ file_idx < Len(corpus)
    /\ corpus[file_idx + 1].raises

SkippedLocally ==
    NextFileRaises =>
        /\ docs_skipped' = docs_skipped + 1
        /\ doc_count' = doc_count
        /\ forward_records' = forward_records
        /\ doc_metadata' = doc_metadata
        /\ word2id' = word2id
        /\ id2word' = id2word
        /\ file_idx' = file_idx + 1
        /\ fwd_pc' = "loop"

\* C18: a document whose processing raises adds one to docs_skipped and
\* leaves doc_count, the forward records, the doc-id metadata and the lexicon
\* as they were; the loop goes on with the next file, and a build fails only
\* when no document at all yielded a token
C18_RaisingDocumentSkippedLocally ==
    /\ [][SkippedLocally]_vars
    /\ [](fwd_pc = "failed" => NoDocumentYieldsTokens)

C18_Witness ==
    /\ fwd_pc = "done"
    /\ Len(corpus) = 3
    /\ Accepted(corpus[1])
    /\ corpus[2].raises
    /\ Accepted(corpus[3])
    /\ docs_skipped = 1
    /\ doc_count = 2
    /\ Len(id2word) = 2
(***************************************************************************)
(* Missing input: claim C17.                                               *)
(***************************************************************************)
\* every file and directory of the model
FileSystem ==
    <<input_dir, output_dir, tmp_dir, buckets, bucket_posting_files,
      forward_index, lexicon_bin, doc_ids_tsv, inverted_index, barrel_mapping,
      barrel_files>>

FwdInputMissing == fwd_pc \in {"start", "failed"} /\ ~input_dir

InvInputMissing == inv_pc \in {"start", "failed"} /\ ~forward_index.exists

BarInputMissing == bar_pc \in {"start", "failed"} /\ ~forward_index.exists

RefusesToStart ==
    /\ (FwdInputMissing /\ fwd_pc = "start") => fwd_pc' = "failed"
    /\ (InvInputMissing /\ inv_pc = "start") => inv_pc' = "failed"
    /\ (BarInputMissing /\ bar_pc = "start") => bar_pc' = "failed"
    /\ (FwdInputMissing \/ InvInputMissing \/ BarInputMissing)
            => FileSystem' = FileSystem

\* C17: called on a dataset root (build_forward_index) or a forward index
\* file (build_inverted_index, build_barrels) that does not exist, the
\* builder's first step is the FileNotFoundError, and no file or directory
\* (output directory, scratch directory, bucket files, barrel files, index
\* files) is created, truncated or deleted by the call
C17_MissingInputRefusedUntouched ==
    /\ [][RefusesToStart]_vars
    /\ [](~input_dir => fwd_pc \in {"idle", "start", "failed"})
    /\ []((~forward_index.exists /\ fwd_pc = "idle")
            => (/\ inv_pc \in {"idle", "start", "failed"}
                /\ bar_pc \in {"idle", "start", "failed"}
                /\ ~output_dir /\ ~tmp_dir /\ buckets = <<>>
                /\ barrel_files = <<>> /\ barrel_mapping = NoFile
                /\ inverted_index = NoFile))

C17_Witness ==
    /\ inv_pc = "failed"
    /\ ~forward_index.exists
    /\ ~output_dir
    /\ ~tmp_dir
    /\ buckets = <<>>
(***************************************************************************)
(* Enumeration order and duplicates: claim C19.                            *)
(***************************************************************************)
NamesIn(dir) == IF dir.exists THEN dir.data ELSE {}

PmcIds == {name.id : name \in NamesIn(pmc_dir)}

PdfIds == {name.id : name \in NamesIn(pdf_dir)}

YieldedFor(id) == {i \in DOMAIN yielded : yielded[i].path.id = id}

\* the file name that sorts first among those of a folder with the given id
FirstNamed(dir, id) ==
    CHOOSE name \in NamesIn(dir) :
        /\ name.id = id
        /\ \A other \in NamesIn(dir) :
                other.id = id => name_key(name) <= name_key(other)

StructuredFirstSortedOnce ==
    \A i, j \in DOMAIN yielded :
        i < j =>
            /\ ~(yielded[i].tag = "pdf" /\ yielded[j].tag = "pmc")
            /\ yielded[i].tag = yielded[j].tag
                    => name_key(yielded[i].path) < name_key(yielded[j].path)
            /\ yielded[i].path.id # yielded[j].path.id

YieldedFromItsFolder ==
    \A i \in DOMAIN yielded :
        \/ yielded[i].tag = "pmc" /\ yielded[i].path \in NamesIn(pmc_dir)
        \/ yielded[i].tag = "pdf" /\ yielded[i].path \in NamesIn(pdf_dir)

StructuredPreferred ==
    iter_pc = "done" =>
        \A id \in PaperIds :
            /\ id \in PmcIds =>
                \E i \in DOMAIN yielded :
                    /\ YieldedFor(id) = {i}
                    /\ yielded[i] = [tag |-> "pmc", path |-> FirstNamed(pmc_dir, id)]
            /\ (id \in PdfIds \ PmcIds) =>
                \E i \in DOMAIN yielded :
                    /\ YieldedFor(id) = {i}
                    /\ yielded[i] = [tag |-> "pdf", path |-> FirstNamed(pdf_dir, id)]
            /\ id \notin (PmcIds \cup PdfIds) => YieldedFor(id) = {}

\* C19: everything yielded from pmc_json comes before anything yielded from
\* pdf_json, the names of one folder come in sorted-filename order, no two
\* yielded files have the same paper id, and when the generator is done a
\* paper id found in pmc_json was yielded from there (its PDF file skipped)
\* while a paper id found only in pdf_json was yielded from pdf_json
C19_StructuredFirstOnePerPaper ==
    /\ StructuredFirstSortedOnce
    /\ YieldedFromItsFolder
    /\ StructuredPreferred

C19_Witness ==
    /\ iter_pc = "done"
    /\ pmc_dir = Some({[id |-> 1, ext |-> ".xml.json"], [id |-> 2, ext |-> ".xml.json"]})
    /\ pdf_dir = Some({[id |-> 1, ext |-> ".json"], [id |-> 2, ext |-> ".json"],
                       [id |-> 2, ext |-> ".xml.json"]})
    /\ yielded = <<[tag |-> "pmc", path |-> [id |-> 1, ext |-> ".xml.json"]],
                   [tag |-> "pmc", path |-> [id |-> 2, ext |-> ".xml.json"]]>>
(***************************************************************************)
(* What tokenize is to return: claim C20.                                  *)
(***************************************************************************)
\* the NFKC-normalized, lower-cased text
NormalizedText == [i \in 1..Len(tok_text) |-> lower(NFKC(tok_text[i]))]

\* the positions where a maximal run of alphanumeric characters begins
RunStarts ==
    {i \in 1..Len(NormalizedText) :
        /\ isalnum(NormalizedText[i])
        /\ (i = 1 \/ ~isalnum(NormalizedText[i - 1]))}

RunEnd(i) ==
    Max({j \in i..Len(NormalizedText) :
            \A k \in i..j : isalnum(NormalizedText[k])})

AlnumRuns ==
    LET starts == sorted(RunStarts)
    IN  [k \in 1..Len(starts) |->
            SubSeq(NormalizedText, starts[k], RunEnd(starts[k]))]

ExpectedTokens == SelectSeq(AlnumRuns, LAMBDA run : run \notin tok_stopwords)

\* C20: whichever tokenizer ran, that of build_forward_index included, the
\* list returned is the maximal alphanumeric runs of the NFKC-normalized,
\* lower-cased text that are not stopwords, in order, none of them empty
C20_TokenizeNfkcAlnumRuns ==
    tok_pc \in {"lexicon", "indexing"} =>
        /\ tok_result.data = ExpectedTokens
        /\ \A i \in DOMAIN tok_result.data : tok_result.data[i] # <<>>
(***************************************************************************)
(* The limit argument: claim C21.                                          *)
(***************************************************************************)
\* the number of documents of the corpus that yield tokens
YieldingDocuments == Cardinality({i \in DOMAIN corpus : Accepted(corpus[i])})

\* C21: a build given limit = L indexes at most L documents, and exactly L
\* when at least L documents of the corpus yield tokens; the header of
\* forward_index.bin, documents_indexed and the lines of doc_ids.tsv all
\* equal the number of documents indexed
C21_LimitBoundsDocuments ==
    (limit.exists /\ fwd_pc \in {"done", "failed"}) =>
        /\ doc_count <= limit.data
        /\ YieldingDocuments >= limit.data => doc_count = limit.data
        /\ fwd_pc = "done" =>
            /\ forward_index.data.doc_count = doc_count
            /\ fwd_stats.data.documents_indexed = doc_count
            /\ Len(doc_ids_tsv.data) = doc_count
(***************************************************************************)
(* Scores and relevance: claims C22, C23.                                  *)
(***************************************************************************)
HasField(hits, field) == \E k \in DOMAIN hits : hits[k] % 10 = field

\* the capped hit count plus one bonus for each bonused field that occurs
FieldScore(hits) ==
    Min({Len(hits), 20})
    + (IF HasField(hits, 0) THEN 50 ELSE 0)
    + (IF HasField(hits, 2) THEN 30 ELSE 0)
    + (IF HasField(hits, 3) THEN 20 ELSE 0)
    + (IF HasField(hits, 5) THEN 30 ELSE 0)

\* C22: for a single-term query the score returned for a document is
\* min(len(hit_list), 20), plus 50 if the list has a title hit, 30 if it has
\* a url hit, 20 if it has an authors hit, 30 if it has a tags hit, whatever
\* the hit list
C22_ScoreIsCapPlusFieldBonuses ==
    rank_pc = "done" => top_docs[1].score = FieldScore(hit_list)

\* C23: is_relevant returns True exactly when some hit of the list has a
\* field code other than 1, and False for the empty list
C23_RelevantIffNonBodyHit ==
    relevant.exists =>
        relevant.data = (\E k \in DOMAIN hit_list : hit_list[k] % 10 # 1)

(***************************************************************************)
(* The directional scan: claim C30.                                        *)
(***************************************************************************)
TimesExamined == LET RECURSIVE Sum(_)
                     Sum(k) == IF k < 0 THEN 0 ELSE examined[k] + Sum(k - 1)
                 IN  Sum(Len(hit_list) - 1)

\* a step of rank_docs, not the call of is_relevant
RankDocsStep == relevant' = relevant

ScanStep ==
    (RankDocsStep /\ rank_pc = "loop" /\ rank_i >= 0 /\ rank_i < Len(hit_list)) =>
        LET body == hit_at(hit_list, rank_i) % 10 = 1
        IN  /\ (rank_step = 1 /\ ~body)
                => (rank_i' = rank_i + 1 /\ rank_step' = 1 /\ rank_pc' = "loop")
            /\ (rank_step = 1 /\ body)
                => (rank_i' = Len(hit_list) - 1 /\ rank_step' = -1
                    /\ rank_pc' = "loop")
            /\ (rank_step = -1 /\ ~body)
                => (rank_i' = rank_i - 1 /\ rank_step' = -1 /\ rank_pc' = "loop")
            /\ (rank_step = -1 /\ body) => rank_pc' = "score"

LeavesWhenOutside ==
    (RankDocsStep /\ rank_pc = "loop" /\ ~(rank_i >= 0 /\ rank_i < Len(hit_list)))
        => rank_pc' = "score"

\* C30: the scan moves forward up to the first body hit, jumps once to the
\* last index, moves backward and leaves the loop at the next body hit or
\* when the index is outside the list; no index is read more than twice and
\* the loop body runs at most len(hit_list) + 1 times, so the loop ends
C30_DirectionalScanTerminates ==
    /\ [][ScanStep /\ LeavesWhenOutside]_vars
    /\ [](rank_pc \in {"loop", "score", "done"} =>
            /\ \A k \in DOMAIN examined : examined[k] <= 2
            /\ TimesExamined <= Len(hit_list) + 1
            /\ rank_step \in {1, -1}
            /\ rank_i \in -1..Len(hit_list))

C30_Witness ==
    /\ rank_pc = "done"
    /\ hit_list = <<0, 1, 2, 5>>
    /\ examined = (0 :> 1) @@ (1 :> 2) @@ (2 :> 1) @@ (3 :> 1)
    /\ top_docs[1].score = 114

(***************************************************************************)
(* C24: ties in doc_freq among non-frequent tokens.                        *)
(***************************************************************************)
\* doc_freq of a token in the dict Pass 1 built
doc_freq(tid) ==
    LET i == CHOOSE i \in DOMAIN token_doc_counts : token_doc_counts[i].tid = tid
    IN  token_doc_counts[i].cnt

\* the tokens build_barrels did not send to the frequency barrel
NonFrequent ==
    {tid \in DOMAIN token_to_barrel : token_to_barrel[tid] # num_barrels}

\* C24: once build_barrels has assigned the barrels, any two non-frequent
\* tokens a < b with the same doc_freq satisfy barrel(a) <= barrel(b), in
\* whatever order the forward index first showed them.
C24_TiesBrokenByTokenId ==
    bar_pc \in {"pass2", "done"} =>
        \A a, b \in NonFrequent :
            (a < b /\ doc_freq(a) = doc_freq(b))
                => token_to_barrel[a] <= token_to_barrel[b]

(***************************************************************************)
(* C25: the counters of the scan phase.                                    *)
(***************************************************************************)
\* the records of token t among the first n records of the scan
ScannedFor(t, n) ==
    Cardinality({i \in 1..n : stream_barrel_records(barrel_files)[i].token_id = t})

\* the token the next record of the scan belongs to
NextScanToken == stream_barrel_records(barrel_files)[scan_idx + 1].token_id

ScanRecordStep == post_pc = "scan" /\ scan_idx' = scan_idx + 1

\* the scan of this step spills the list of its token
SpillsNow ==
    /\ dict_get(token_disk_counts', NextScanToken, 0)
           = dict_get(token_disk_counts, NextScanToken, 0)
                 + PER_TOKEN_INMEM_THRESHOLD
    /\ dict_get(spill_files', NextScanToken, <<>>) # dict_get(spill_files, NextScanToken, <<>>)
    /\ dict_get(token_inmem', NextScanToken, <<>>) = <<>>

\* the scan of this step leaves the disk untouched
KeepsInMemory ==
    /\ token_disk_counts' = token_disk_counts
    /\ spill_files' = spill_files

ScanCounters ==
    \A t \in 0..1 :
        /\ Len(dict_get(token_inmem, t, <<>>)) < PER_TOKEN_INMEM_THRESHOLD
        /\ dict_get(token_disk_counts, t, 0) % PER_TOKEN_INMEM_THRESHOLD = 0
        /\ dict_get(token_disk_counts, t, 0) + Len(dict_get(token_inmem, t, <<>>))
               = ScannedFor(t, scan_idx)

\* C25: after every record of the scan and for every token, the in-memory
\* list is shorter than the threshold, disk_count is a multiple of the
\* threshold, and disk_count plus the list length is the number of records
\* scanned for the token; a record causes a spill exactly when it brings the
\* list of its token to the threshold.
C25_ScanCountersInvariant ==
    /\ [](post_pc \in {"scan", "write"} => ScanCounters)
    /\ [][ScanRecordStep =>
            IF Len(dict_get(token_inmem, NextScanToken, <<>>)) + 1
                   = PER_TOKEN_INMEM_THRESHOLD
            THEN SpillsNow
            ELSE KeepsInMemory]_vars

\* three records of token 0 scanned with threshold 2: one spill of two
\* records, one record in memory
C25_Witness ==
    /\ post_pc = "scan"
    /\ PER_TOKEN_INMEM_THRESHOLD = 2
    /\ scan_idx = 3
    /\ dict_get(token_disk_counts, 0, 0) = 2
    /\ Len(dict_get(token_inmem, 0, <<>>)) = 1
    /\ Len(dict_get(spill_files, 0, <<>>)) = 2

(***************************************************************************)
(* C26: an aborted build and the earlier inverted_index.bin.               *)
(***************************************************************************)
\* C26: when build_inverted_index has aborted, in whichever pass, the
\* inverted_index.bin of the earlier build is still at the final path as it
\* was; the path does not hold a partly written file.
C26_AbortKeepsPriorInverted ==
    inv_pc \in {"failed", "aborted"} => inverted_index = PriorInverted

(***************************************************************************)
(* C28: the scratch directory of build_inverted_index.                     *)
(***************************************************************************)
\* tmp_inverted holds the bucket files of this run only, all of them empty
ScratchEmpty ==
    /\ tmp_dir
    /\ DOMAIN buckets = 0..(num_buckets - 1)
    /\ \A b \in DOMAIN buckets : buckets[b] = <<>>
    /\ bucket_posting_files = <<>>

\* inverted_index.bin is whole: header patched, every token of the forward
\* index written with exactly its documents
InvertedComplete ==
    /\ inverted_index.exists
    /\ heap = {}
    /\ inverted_index.data.vocab_size = Len(InvertedRecords)
    /\ {InvertedRecords[i].token_id : i \in DOMAIN InvertedRecords} = ForwardTokens
    /\ \A i \in DOMAIN InvertedRecords :
          SeqToSet(InvertedRecords[i].doc_ids) = DocsContaining(InvertedRecords[i].token_id)

EntersPass1 == inv_pc = "start" /\ inv_pc' = "pass1"

RemovesScratch == tmp_dir /\ ~tmp_dir'

\* C28: Pass 1 begins with a scratch directory that holds nothing of an
\* earlier run, so a finished inverted_index.bin has no record from stale
\* bucket files; no bucket write handle is open once Pass 1 is over, on the
\* error paths too; the scratch directory is removed only when
\* inverted_index.bin is completely written.
C28_ScratchFreshClosedRemovedLast ==
    /\ [][EntersPass1 => ScratchEmpty']_vars
    /\ [](inv_pc = "done" => InvertedComplete)
    /\ [](inv_pc \in {"pass2", "merge", "merged", "done", "failed", "aborted"}
            => bucket_handles = {})
    /\ [](inv_pc = "pass1" => bucket_handles = 0..(num_buckets - 1))
    /\ [][RemovesScratch =>
            (inv_pc = "merged" /\ InvertedComplete /\ inverted_index' = inverted_index)]_vars

\* a build finished over the scratch directory of an aborted one, on a
\* forward index that has neither token 2 nor token 1 of the stale buckets
C28_Witness ==
    /\ inv_pc = "done"
    /\ ~tmp_dir
    /\ ForwardTokens = {0}
    /\ Len(InvertedRecords) = 1
    /\ inverted_index # PriorInverted
    /\ bucket_handles = {}

(***************************************************************************)
(* C27: a barrel file that ends inside a positional record.                *)
(***************************************************************************)
\* some barrel file holds a record with fewer positions than it declares
BarrelTruncated ==
    \E b \in DOMAIN barrel_files : \E i \in DOMAIN barrel_files[b] :
        Len(barrel_files[b][i].positions) < barrel_files[b][i].positions_count

\* C27: when a barrel file ends in the middle of a positional record, the
\* consolidator aborts: it never reaches the renames, and postings_index.bin
\* and postings_offsets.bin stay as the earlier build left them.
C27_TruncatedBarrelAborts ==
    BarrelTruncated =>
        /\ post_pc \notin {"replace_offsets", "cleanup", "done"}
        /\ postings_index = PriorIndex
        /\ postings_offsets = PriorOffsets

(***************************************************************************)
(* C29: the consolidated blocks of a forward index in doc_id order.        *)
(***************************************************************************)
\* the doc_ids of the consolidated block of a token, in block order
BlockDocIds(token_id) ==
    LET block == parse_index_block(postings_index.data,
                                   read_offsets(postings_offsets)[token_id].offset)
    IN  [k \in DOMAIN block |-> block[k].doc_id]

=============================================================================
